---- MODULE Spec2Model ----
(***************************************************************************)
(* picogen: taxonomy indexing and template composition.                   *)
(*                                                                         *)
(* Strings are sequences of one-character strings, so that the regular    *)
(* expression of fill, str.split, str.strip and normalize_string are      *)
(* modelled character by character.  A Python dict is a function; where   *)
(* the code depends on the insertion order of a dict the keys are kept    *)
(* in a sequence next to it.                                               *)
(***************************************************************************)
EXTENDS Integers, Sequences, FiniteSets, TLC

VARIABLES
    \* ---- inputs of one format's run (specification Spec)
    protocol,        \* the item of args.generate being generated
    config,          \* config.json
    template_files,  \* templates/{suffix}/*.*: <<name, content>> in glob order
    content,         \* the files os.walk('content') yields, in walk order
    \* ---- the run
    pc,              \* the section of main the run is in
    error,           \* the uncaught exception that ended the run, "" for none
    cursor,          \* iterations of the current section's loop already done
    templates,
    descriptors,
    descriptors_by_taxonomies,
    index_list_variable_descriptors,
    value_list_variable_descriptors,
    index_list_file_descriptors,
    value_list_file_descriptors,
    output_variables,
    target,          \* the files written under target/: path -> data
    \* ---- history, read by the properties only
    origin,          \* origin[k]: the position in content of descriptors[k]
    log,             \* the pool writes and file writes so far, in order
    \* ---- fill() applied to drawn inputs (specification FillSpec)
    ftpl,            \* the template handed to fill
    fscope,          \* the keyword arguments handed to fill
    fout,            \* fill(ftpl, **fscope)
    fout2,           \* fill(fout, **fscope)
    fpc              \* "idle" | "start" | "filled" | "refilled"

inputs == <<protocol, config, template_files, content>>

lists == <<index_list_variable_descriptors, value_list_variable_descriptors,
           index_list_file_descriptors, value_list_file_descriptors>>

rvars == <<inputs, pc, error, cursor, templates, descriptors, descriptors_by_taxonomies,
           lists, output_variables, target, origin, log>>

fvars == <<ftpl, fscope, fout, fout2, fpc>>

vars == <<rvars, fvars>>

(***************************************************************************)
(* Bounds                                                                  *)
(***************************************************************************)
MaxPieces == 3
MaxFiles == 2

(***************************************************************************)
(* Generic sequence helpers                                                *)
(***************************************************************************)
RECURSIVE Flatten(_)
Flatten(ss) == IF ss = <<>> THEN <<>> ELSE Head(ss) \o Flatten(Tail(ss))

RECURSIVE SeqsUpTo(_, _)
SeqsUpTo(S, n) ==
    IF n = 0 THEN {<<>>}
    ELSE LET shorter == SeqsUpTo(S, n - 1)
         IN  shorter \cup {Append(s, x) : s \in shorter, x \in S}

Range(s) == {s[i] : i \in 1..Len(s)}

(***************************************************************************)
(* Values held by a scope: Python str, int or None                         *)
(***************************************************************************)
StrV(s) == [str |-> s]
IntV(n) == [int |-> n]
NoneV == [none |-> TRUE]

Digit(n) == CASE n = 0 -> "0" [] n = 1 -> "1" [] n = 2 -> "2" [] n = 3 -> "3"
              [] n = 4 -> "4" [] n = 5 -> "5" [] n = 6 -> "6" [] n = 7 -> "7"
              [] n = 8 -> "8" [] n = 9 -> "9"

RECURSIVE Decimal(_)
Decimal(n) == IF n < 10 THEN <<Digit(n)>> ELSE Append(Decimal(n \div 10), Digit(n % 10))

\* str(value) as applied by fill to the value it substitutes
Str(v) ==
    IF "int" \in DOMAIN v THEN Decimal(v.int)
    ELSE IF "none" \in DOMAIN v THEN <<"N", "o", "n", "e">>
    ELSE v.str

(***************************************************************************)
(* fill: re.sub(r'{{\s*([^}\s]+)\s*}}', ...)                               *)
(***************************************************************************)
Whitespace == {" ", "\n", "\t"}

\* \s* is greedy and cannot give back: no later part of the pattern matches whitespace
RECURSIVE SkipWs(_, _)
SkipWs(s, i) == IF i <= Len(s) /\ s[i] \in Whitespace THEN SkipWs(s, i + 1) ELSE i

\* [^}\s]+ is greedy and cannot give back: "}}" and \s* match none of its characters
RECURSIVE SkipName(_, _)
SkipName(s, i) ==
    IF i <= Len(s) /\ s[i] # "}" /\ s[i] \notin Whitespace THEN SkipName(s, i + 1) ELSE i

NoMatch == [ok |-> FALSE, name |-> <<>>, end |-> 0]

\* the match of the pattern that starts exactly at position i, if any
MatchAt(s, i) ==
    IF i + 1 <= Len(s) /\ s[i] = "{" /\ s[i + 1] = "{"
    THEN LET a == SkipWs(s, i + 2)
             b == SkipName(s, a)
             c == SkipWs(s, b)
         IN  IF b > a /\ c + 1 <= Len(s) /\ s[c] = "}" /\ s[c + 1] = "}"
             THEN [ok |-> TRUE, name |-> SubSeq(s, a, b - 1), end |-> c + 2]
             ELSE NoMatch
    ELSE NoMatch

\* lambda m: str(variables.get(m.group(1), m.group(0)))
Replacement(s, i, m, variables) ==
    IF m.name \in DOMAIN variables THEN Str(variables[m.name])
    ELSE SubSeq(s, i, m.end - 1)

RECURSIVE FillFrom(_, _, _)
FillFrom(s, i, variables) ==
    IF i > Len(s) THEN <<>>
    ELSE LET m == MatchAt(s, i)
         IN  IF m.ok
             THEN Replacement(s, i, m, variables) \o FillFrom(s, m.end, variables)
             ELSE <<s[i]>> \o FillFrom(s, i + 1, variables)

\* fill as it would be with re.sub(..., count=1): only the first match is replaced
RECURSIVE FillFirstFrom(_, _, _)
FillFirstFrom(s, i, variables) ==
    IF i > Len(s) THEN <<>>
    ELSE LET m == MatchAt(s, i)
         IN  IF m.ok
             THEN Replacement(s, i, m, variables) \o SubSeq(s, m.end, Len(s))
             ELSE <<s[i]>> \o FillFirstFrom(s, i + 1, variables)

fill_count1(tpl, variables) == FillFirstFrom(tpl, 1, variables)

\* fill as it would be if the replacement were expanded again
fill_reexpand(tpl, variables) == FillFrom(FillFrom(tpl, 1, variables), 1, variables)

fill(tpl, variables) == FillFrom(tpl, 1, variables)

(***************************************************************************)
(* Python str operations                                                   *)
(***************************************************************************)
\* position of the first occurrence of character c at or after i, 0 for none
RECURSIVE Find(_, _, _)
Find(s, c, i) ==
    IF i > Len(s) THEN 0 ELSE IF s[i] = c THEN i ELSE Find(s, c, i + 1)

\* s.split(c): the parts between the occurrences of c, empty parts included
RECURSIVE Split(_, _)
Split(s, c) ==
    LET k == Find(s, c, 1)
    IN  IF k = 0 THEN <<s>>
        ELSE <<SubSeq(s, 1, k - 1)>> \o Split(SubSeq(s, k + 1, Len(s)), c)

RECURSIVE LStrip(_)
LStrip(s) == IF s # <<>> /\ Head(s) \in Whitespace THEN LStrip(Tail(s)) ELSE s

RECURSIVE RStrip(_)
RStrip(s) ==
    IF s # <<>> /\ s[Len(s)] \in Whitespace THEN RStrip(SubSeq(s, 1, Len(s) - 1)) ELSE s

\* s.strip() as it would be if only the right end were stripped
StripRightOnly(s) == RStrip(s)

\* s.strip()
Strip(s) == RStrip(LStrip(s))

LowerChar(c) ==
    CASE c = "G" -> "g" [] c = "O" -> "o" [] c = "T" -> "t" [] c = "X" -> "x"
      [] OTHER -> c

\* s.lower()
Lower(s) == [i \in 1..Len(s) |-> LowerChar(s[i])]

\* unidecode.unidecode(s): ASCII is kept, an accented letter becomes its base letter
UnidecodeChar(c) == CASE c = "é" -> "e" [] c = "É" -> "E" [] OTHER -> c

Unidecode(s) == [i \in 1..Len(s) |-> UnidecodeChar(s[i])]

\* s.replace(" ", "-")
SpacesToHyphens(s) == [i \in 1..Len(s) |-> IF s[i] = " " THEN "-" ELSE s[i]]

\* normalize_string as it would be if it kept the case
normalize_string_keepcase(s) == SpacesToHyphens(Unidecode(s))

normalize_string(s) == SpacesToHyphens(Lower(Unidecode(s)))

\* os.path.join(a, b) on POSIX
PathJoin2(a, b) ==
    IF b # <<>> /\ Head(b) = "/" THEN b
    ELSE IF a = <<>> \/ a[Len(a)] = "/" THEN a \o b
    ELSE a \o <<"/">> \o b

RECURSIVE PathJoin(_)
PathJoin(parts) ==
    IF Len(parts) = 1 THEN parts[1]
    ELSE PathJoin(<<PathJoin2(parts[1], parts[2])>> \o SubSeq(parts, 3, Len(parts)))

\* os.path.dirname / basename are not needed: os.walk hands over root and name

\* code point order of the characters that occur in compared strings
CodePoints == <<" ", "-", "0", "1", "2", "3", "4", "5", "6", "7", "8", "9",
                "G", "O", "T", "X", "a", "b", "c", "d", "e", "g", "o", "x", "y", "z", "é">>

Ord(c) == CHOOSE i \in 1..Len(CodePoints) : CodePoints[i] = c

\* a < b for Python str
RECURSIVE StrLess(_, _)
StrLess(a, b) ==
    IF b = <<>> THEN FALSE
    ELSE IF a = <<>> THEN TRUE
    ELSE IF Head(a) = Head(b) THEN StrLess(Tail(a), Tail(b))
    ELSE Ord(Head(a)) < Ord(Head(b))

\* x < y for the values sorted() compares: str with str, int with int
ValueLess(x, y) ==
    IF "int" \in DOMAIN x THEN x.int < y.int ELSE StrLess(x.str, y.str)

\* sorted(xs, key=key, reverse=reverse), key being the function from the
\* elements to their keys: stable, and stable under reverse too
RECURSIVE InsertSorted(_, _, _, _)
InsertSorted(sorted, x, key, reverse) ==
    IF sorted = <<>> THEN <<x>>
    ELSE IF (IF reverse THEN ValueLess(key[Head(sorted)], key[x])
             ELSE ValueLess(key[x], key[Head(sorted)]))
    THEN <<x>> \o sorted
    ELSE <<Head(sorted)>> \o InsertSorted(Tail(sorted), x, key, reverse)

RECURSIVE SortedFrom(_, _, _, _)
SortedFrom(xs, i, key, reverse) ==
    IF i = 0 THEN <<>>
    ELSE InsertSorted(SortedFrom(xs, i - 1, key, reverse), xs[i], key, reverse)

Sorted(xs, key, reverse) == SortedFrom(xs, Len(xs), key, reverse)

\* xs[0:n]
Take(xs, n) == SubSeq(xs, 1, IF n < Len(xs) THEN n ELSE Len(xs))

\* {**lo, **hi}: the right dict wins
Over(lo, hi) == hi @@ lo

RECURSIVE Merge(_)
Merge(layers) ==
    IF layers = <<>> THEN <<>>
    ELSE Over(Merge(SubSeq(layers, 1, Len(layers) - 1)), layers[Len(layers)])

(***************************************************************************)
(* Optional dict keys: <<>> when the key is absent, <<x>> when it holds x  *)
(***************************************************************************)
Absent == <<>>
Some(x) == <<x>>
Has(o) == o # <<>>
Get(o) == o[1]

\* Python truthiness of an optional string: None and '' are false
Truthy(o) == o # <<>> /\ o[1] # <<>>

\* d[k] = v on a dict
Put(d, k, v) == (k :> v) @@ d

(***************************************************************************)
(* Protocol                                                                *)
(***************************************************************************)
Protocols == {"http", "gemini"}

\* Protocol.file_suffix
file_suffix(proto) == IF proto = "http" THEN <<"h", "t", "m", "l">> ELSE <<"g", "m", "i">>

\* Protocol.scheme
scheme(proto, is_ssl) ==
    IF proto = "http" THEN (IF is_ssl THEN <<"h", "t", "t", "p", "s">> ELSE <<"h", "t", "t", "p">>) ELSE <<"g", "e", "m", "i", "n", "i">>

(***************************************************************************)
(* format_to_rfc3339: datetime.strptime(value, '%Y-%m-%d') and isoformat   *)
(***************************************************************************)
Digits == <<"0", "1", "2", "3", "4", "5", "6", "7", "8", "9">>

IsDigit(c) == \E i \in 1..10 : Digits[i] = c

DigitVal(c) == (CHOOSE i \in 1..10 : Digits[i] = c) - 1

RECURSIVE ToInt(_)
ToInt(s) == IF s = <<>> THEN 0 ELSE 10 * ToInt(SubSeq(s, 1, Len(s) - 1)) + DigitVal(s[Len(s)])

IsLeap(y) == (y % 4 = 0 /\ y % 100 # 0) \/ y % 400 = 0

DaysIn(y, m) ==
    IF m = 2 THEN (IF IsLeap(y) THEN 29 ELSE 28)
    ELSE IF m \in {4, 6, 9, 11} THEN 30 ELSE 31

\* strptime accepts %Y as four digits, %m and %d as one or two digits
IsDateParts(p) ==
    /\ Len(p) = 3
    /\ \A i \in 1..3 : p[i] # <<>> /\ \A j \in 1..Len(p[i]) : IsDigit(p[i][j])
    /\ Len(p[1]) = 4 /\ Len(p[2]) <= 2 /\ Len(p[3]) <= 2
    /\ ToInt(p[1]) >= 1
    /\ ToInt(p[2]) \in 1..12
    /\ ToInt(p[3]) \in 1..DaysIn(ToInt(p[1]), ToInt(p[2]))

IsDate(s) == IsDateParts(Split(s, "-"))

Pad2(s) == IF Len(s) = 1 THEN <<"0">> \o s ELSE s

IsoFormat(p) ==
    p[1] \o <<"-">> \o Pad2(p[2]) \o <<"-">> \o Pad2(p[3]) \o <<"T", "0", "0", ":", "0", "0", ":", "0", "0", "+", "0", "0", ":", "0", "0">>

\* the local time zone is taken to be UTC
format_to_rfc3339(value) == IsoFormat(Split(value, "-"))

(***************************************************************************)
(* assemble_file_descriptor                                                *)
(* A content file is its walk root, its name, the annotations of its      *)
(* header in file order and the text after the header.                    *)
(***************************************************************************)
RECURSIVE PutAll(_, _)
PutAll(d, pairs) ==
    IF pairs = <<>> THEN d
    ELSE PutAll(Put(d, pairs[1][1], StrV(pairs[1][2])), Tail(pairs))

\* the date and its rfc3339 variant
WithDates(d) ==
    IF ~IsDate(d[<<"d", "a", "t", "e">>].str) THEN [error |-> "ValueError", d |-> d]
    ELSE [error |-> "", d |-> Put(d, <<"r", "f", "c", "3", "3", "3", "9", "_", "d", "a", "t", "e">>,
                                  StrV(format_to_rfc3339(d[<<"d", "a", "t", "e">>].str)))]

\* file name and extension, then the dates
WithName(d, parts) ==
    IF Len(parts) < 2
    THEN [error |-> "IndexError", d |-> Put(d, <<"f", "i", "l", "e", "_", "n", "a", "m", "e">>, StrV(parts[1]))]
    ELSE WithDates((<<"f", "i", "l", "e", "_", "n", "a", "m", "e">> :> StrV(parts[1])) @@ (<<"f", "i", "l", "e", "_", "e", "x", "t">> :> StrV(parts[2]))
                   @@ d @@ (<<"d", "a", "t", "e">> :> StrV(<<"1", "9", "7", "0", "-", "0", "1", "-", "0", "1">>)))

\* [error |-> the exception raised, "" for none; d |-> the descriptor]
assemble_file_descriptor(file) ==
    WithName(Put(PutAll(<<>>, file.header), <<"b", "o", "d", "y">>, StrV(file.body)),
             Split(file.name, "."))

(***************************************************************************)
(* summarize and convert_and_fill_body                                     *)
(* The converters are libraries outside the repository.  Bodies here are  *)
(* one paragraph of plain text, or text that is HTML already: commonmark  *)
(* wraps a paragraph in <p>..</p> and passes an HTML block through, and   *)
(* md2gemini leaves a plain paragraph as it is.                           *)
(***************************************************************************)
\* s[i:i+len(pat)] == pat
MatchesAt(s, pat, i) == i + Len(pat) - 1 <= Len(s) /\ SubSeq(s, i, i + Len(pat) - 1) = pat

\* position of the first occurrence of pat at or after i, 0 for none
RECURSIVE FindSub(_, _, _)
FindSub(s, pat, i) ==
    IF i + Len(pat) - 1 > Len(s) THEN 0
    ELSE IF MatchesAt(s, pat, i) THEN i ELSE FindSub(s, pat, i + 1)

IsSubstring(pat, s) == pat = <<>> \/ FindSub(s, pat, 1) # 0

\* body.splitlines()
SplitLines(s) ==
    IF s = <<>> THEN <<>>
    ELSE LET parts == Split(s, "\n")
         IN  IF parts[Len(parts)] = <<>> THEN SubSeq(parts, 1, Len(parts) - 1) ELSE parts

\* the gemini loop of summarize: the result so far joined with each line, until
\* a blank line follows some content; falling off the loop returns None
RECURSIVE SummarizeLines(_, _)
SummarizeLines(lines, result) ==
    IF lines = <<>> THEN NoneV
    ELSE IF result # <<>> /\ Head(lines) = <<>> THEN StrV(result)
    ELSE IF Head(lines) = <<>> THEN SummarizeLines(Tail(lines), result)
    ELSE SummarizeLines(Tail(lines), result \o <<"\n">> \o Head(lines))

\* BeautifulSoup(body).find_all('p')[0].text, '' on IndexError
FirstParagraph(body) ==
    LET a == FindSub(body, <<"<", "p", ">">>, 1)
        b == IF a = 0 THEN 0 ELSE FindSub(body, <<"<", "/", "p", ">">>, a + 3)
    IN  IF a = 0 THEN <<>>
        ELSE IF b = 0 THEN SubSeq(body, a + 3, Len(body))
        ELSE SubSeq(body, a + 3, b - 1)

summarize(body, body_format) ==
    IF body_format = "gemini" THEN SummarizeLines(SplitLines(body), <<>>)
    ELSE StrV(FirstParagraph(body))

\* commonmark.commonmark(body)
commonmark(body) ==
    IF body = <<>> THEN <<>>
    ELSE IF Head(body) = "<"
         THEN (IF body[Len(body)] = "\n" THEN body ELSE body \o <<"\n">>)
    ELSE <<"<", "p", ">">> \o body \o <<"<", "/", "p", ">">> \o <<"\n">>

\* md2gemini(body, links='newline')
md2gemini(body) == body

MarkdownExts == {<<"m", "a", "r", "k", "d", "o", "w", "n">>, <<"m", "d">>}

convert_and_fill_body(descriptor, proto, variables) ==
    LET filled == fill(Str(descriptor[<<"b", "o", "d", "y">>]), variables)
        body == IF descriptor[<<"f", "i", "l", "e", "_", "e", "x", "t">>].str \in MarkdownExts
                THEN (IF proto = "http" THEN commonmark(filled) ELSE md2gemini(filled))
                ELSE filled
    IN  Put(Put(descriptor, <<"b", "o", "d", "y">>, StrV(body)), <<"s", "u", "m", "m", "a", "r", "y">>, summarize(body, proto))

(***************************************************************************)
(* The run's dicts                                                         *)
(*   descriptors               the descriptor dicts, in order of assembly  *)
(*   descriptors_by_taxonomies tid -> [keys, items]: the values of the     *)
(*                             taxonomy in insertion order and, per value, *)
(*                             the positions in descriptors of the dicts   *)
(*                             appended under it (the same dict objects)   *)
(***************************************************************************)
\* the scalar keys of config.json, and its structured ones under their repr
ConfigScope(conf) ==
    Put(Put(conf.vars,
            <<"s", "s", "l", "_", "e", "n", "a", "b", "l", "e", "d">>, StrV(IF conf.ssl_enabled THEN <<"T", "r", "u", "e">> ELSE <<"F", "a", "l", "s", "e">>)),
        <<"t", "a", "x", "o", "n", "o", "m", "i", "e", "s">>, StrV(<<"[", ".", ".", ".", "]">>))

\* dynamic_vars: scheme, current_year, rfc3339_now
DynamicVars(proto, conf) ==
    (<<"s", "c", "h", "e", "m", "e">> :> StrV(scheme(proto, conf.ssl_enabled)))
    @@ (<<"c", "u", "r", "r", "e", "n", "t", "_", "y", "e", "a", "r">> :> IntV(2021))
    @@ (<<"r", "f", "c", "3", "3", "3", "9", "_", "n", "o", "w">> :> StrV(<<"2", "0", "2", "1", "-", "0", "1", "-", "0", "1", "T", "0", "0", ":", "0", "0", ":", "0", "0", "+", "0", "0", ":", "0", "0">>))

\* taxonomy_variables of main and of fill_value_list
TaxonomyVariables(taxonomy_config) ==
    (<<"t", "a", "x", "o", "n", "o", "m", "y", "_", "i", "d">> :> StrV(taxonomy_config.id))
    @@ (<<"t", "a", "x", "o", "n", "o", "m", "y", "_", "t", "i", "t", "l", "e">> :> StrV(taxonomy_config.title))
    @@ (<<"t", "i", "t", "l", "e">> :> StrV(taxonomy_config.title))

\* f"{taxonomy_config['id']}_{index_config['id']}_{normalize_string(tvalue)}"
IndexVariableName(tid, index_id, tvalue) ==
    tid \o <<"_">> \o index_id \o <<"_">> \o normalize_string(tvalue)

\* f"{taxonomy_config['id']}_{value_list_config['id']}"
ValueListVariableName(tid, value_list_id) == tid \o <<"_">> \o value_list_id

(***************************************************************************)
(* fill_index                                                              *)
(***************************************************************************)
\* the loop over dbt[0:limit]: each descriptor is converted and filled in
\* place, then rendered through the item template: [ds, outs]
RECURSIVE IndexItems(_, _, _, _, _, _)

PrependItem(item_output, rest) ==
    [ds |-> rest.ds, outs |-> <<item_output>> \o rest.outs]

\* the rest of one iteration, d being the converted and filled descriptor
ItemFilled(ds, ks, i, base, item_template, proto, d) ==
    PrependItem(fill(item_template, Over(base, d)),
                IndexItems([ds EXCEPT ![ks[i]] = d], ks, i + 1, base, item_template,
                           proto))

IndexItems(ds, ks, i, base, item_template, proto) ==
    IF i > Len(ks) THEN [ds |-> ds, outs |-> <<>>]
    ELSE ItemFilled(ds, ks, i, base, item_template, proto,
                    convert_and_fill_body(ds[ks[i]], proto, Over(base, ds[ks[i]])))

\* the custom_variables loop: every one is filled against the scope built
\* before the loop
RECURSIVE CustomVariables(_, _, _)
CustomVariables(term_variables, custom, v) ==
    IF custom = <<>> THEN term_variables
    ELSE CustomVariables(Put(term_variables, custom[1][1], StrV(fill(custom[1][2], v))),
                         Tail(custom), v)

\* term_variables of fill_index before the items are rendered
IndexTermVariables(taxonomy_config, tvalue) ==
    (<<"t", "a", "x", "o", "n", "o", "m", "y", "_", "v", "a", "l", "u", "e">> :> StrV(tvalue))
    @@ (<<"t", "a", "x", "o", "n", "o", "m", "y", "_", "v", "a", "l", "u", "e", "_", "l", "o", "w", "e", "r">> :> StrV(Lower(tvalue)))
    @@ (<<"t", "a", "x", "o", "n", "o", "m", "y", "_", "v", "a", "l", "u", "e", "_", "n", "o", "r", "m", "a", "l", "i", "z", "e", "d">> :> StrV(normalize_string(tvalue)))
    @@ (<<"t", "i", "t", "l", "e">> :> StrV(taxonomy_config.title \o <<" ">> \o tvalue))

OrderBy(index_config) ==
    IF Has(index_config.order_by) THEN Get(index_config.order_by) ELSE <<"d", "a", "t", "e">>

\* the direction as it would be if it were never reversed
ReverseNever(index_config) == FALSE

Reverse(index_config) ==
    ~(Has(index_config.order_direction) /\ Get(index_config.order_direction) = <<"a", "s", "c">>)

Limited(index_config, sorted) ==
    Take(sorted, IF Has(index_config.limit) THEN Get(index_config.limit) ELSE Len(sorted))

\* "sort and limit posts": the positions of the descriptors that are rendered
SortedAndLimited(index_config, ds, bucket) ==
    Limited(index_config,
            Sorted(bucket, [k \in Range(bucket) |-> ds[k][OrderBy(index_config)]],
                   Reverse(index_config)))

IndexFailed(ds) == [error |-> "KeyError", out |-> <<>>, ds |-> ds, items |-> <<>>]

\* "merge item outputs", the custom variables and the wrapper template
IndexWrapped(conf, tpls, index_config, taxonomy_variables, term_variables, dynamic_vars, outvars) ==
    fill(tpls[index_config.template],
         Merge(<<conf, taxonomy_variables,
                 CustomVariables(term_variables, index_config.custom_variables,
                                 Merge(<<conf, taxonomy_variables, term_variables,
                                         outvars, dynamic_vars>>)),
                 outvars, dynamic_vars>>))

IndexRendered(conf, taxonomy_config, tpls, tvalue, index_config, taxonomy_variables, dynamic_vars, outvars, ks, items) ==
    [error |-> "",
     out |-> IndexWrapped(conf, tpls, index_config, taxonomy_variables,
                          Put(IndexTermVariables(taxonomy_config, tvalue), <<"b", "o", "d", "y">>,
                              StrV(Flatten(items.outs))),
                          dynamic_vars, outvars),
     ds |-> items.ds,
     items |-> ks]

IndexSelected(proto, conf, taxonomy_config, tpls, tvalue, index_config, taxonomy_variables, ds, dynamic_vars, outvars, ks) ==
    IF ks # <<>> /\ index_config.item_template \notin DOMAIN tpls THEN IndexFailed(ds)
    ELSE IF index_config.template \notin DOMAIN tpls THEN IndexFailed(ds)
    ELSE IndexRendered(conf, taxonomy_config, tpls, tvalue, index_config,
                       taxonomy_variables, dynamic_vars, outvars, ks,
                       IndexItems(ds, ks, 1,
                                  Merge(<<conf, taxonomy_variables,
                                          IndexTermVariables(taxonomy_config, tvalue),
                                          outvars, dynamic_vars>>),
                                  tpls[index_config.item_template], proto))

\* [error, out, ds: the descriptors after the call, items: the positions of
\*  the descriptors rendered, in order]
fill_index(proto, conf, taxonomy_config, tpls, tid, tvalue, index_config, taxonomy_variables, ds, dbt, dynamic_vars, outvars) ==
    IF \E i \in 1..Len(dbt[tid].items[tvalue]) :
           OrderBy(index_config) \notin DOMAIN ds[dbt[tid].items[tvalue][i]]
    THEN IndexFailed(ds)
    ELSE IndexSelected(proto, conf, taxonomy_config, tpls, tvalue, index_config,
                       taxonomy_variables, ds, dynamic_vars, outvars,
                       SortedAndLimited(index_config, ds, dbt[tid].items[tvalue]))

(***************************************************************************)
(* fill_value_list                                                         *)
(***************************************************************************)
\* taxonomy_keys after the optional sort
ValueListKeys(value_list_config, taxonomy) ==
    IF Has(value_list_config.order_direction)
    THEN LET reverse == Get(value_list_config.order_direction) # <<"a", "s", "c">>
             sort_by_count == Has(value_list_config.order_by)
                              /\ Get(value_list_config.order_by) = <<"c", "o", "u", "n", "t">>
         IN  IF sort_by_count
             THEN Sorted(taxonomy.keys,
                         [key \in Range(taxonomy.keys) |-> IntV(Len(taxonomy.items[key]))],
                         reverse)
             ELSE Sorted(taxonomy.keys, [key \in Range(taxonomy.keys) |-> StrV(key)], reverse)
    ELSE taxonomy.keys

LimitedTerms(value_list_config, keys) ==
    Take(keys, IF Has(value_list_config.limit) THEN Get(value_list_config.limit)
               ELSE Len(keys))

\* taxonomy_keys[0:int(limit)]: the values the list retains
RetainedTerms(value_list_config, taxonomy) ==
    LimitedTerms(value_list_config, ValueListKeys(value_list_config, taxonomy))

\* the pool name looked up for a term of a list that names inlined_index_id
InlinedName(taxonomy_config, value_list_config, term) ==
    IndexVariableName(taxonomy_config.id, Get(value_list_config.inlined_index_id), term)

\* term_variables of fill_value_list
TermVariables(taxonomy_config, value_list_config, taxonomy, term, outvars) ==
    (IF Has(value_list_config.inlined_index_id)
     THEN (<<"t", "a", "x", "o", "n", "o", "m", "y", "_", "v", "a", "l", "u", "e", "_", "l", "i", "s", "t">> :>
              outvars[InlinedName(taxonomy_config, value_list_config, term)])
     ELSE <<>>)
    @@ (<<"t", "a", "x", "o", "n", "o", "m", "y", "_", "v", "a", "l", "u", "e">> :> StrV(term))
    @@ (<<"t", "a", "x", "o", "n", "o", "m", "y", "_", "v", "a", "l", "u", "e", "_", "l", "o", "w", "e", "r">> :> StrV(Lower(term)))
    @@ (<<"t", "a", "x", "o", "n", "o", "m", "y", "_", "v", "a", "l", "u", "e", "_", "n", "o", "r", "m", "a", "l", "i", "z", "e", "d">> :> StrV(normalize_string(term)))
    @@ (<<"t", "a", "x", "o", "n", "o", "m", "y", "_", "v", "a", "l", "u", "e", "_", "p", "o", "s", "t", "s", "_", "c", "o", "u", "n", "t">> :> IntV(Len(taxonomy.items[term])))

ValueListFailed == [error |-> "KeyError", out |-> <<>>, terms |-> <<>>, injected |-> <<>>]

\* the item template filled for one term
ValueListItem(conf, taxonomy_config, tpls, value_list_config, taxonomy, dynamic_vars, outvars, term) ==
    fill(tpls[value_list_config.item_template],
         Merge(<<conf, TaxonomyVariables(taxonomy_config),
                 TermVariables(taxonomy_config, value_list_config, taxonomy, term,
                               outvars),
                 dynamic_vars>>))

\* the wrapper template filled around the item outputs
ValueListWrapped(conf, taxonomy_config, tpls, value_list_config, dynamic_vars, body) ==
    fill(tpls[value_list_config.template],
         Merge(<<conf, Put(TaxonomyVariables(taxonomy_config), <<"b", "o", "d", "y">>, StrV(body)),
                 dynamic_vars>>))

\* the loop over taxonomy_keys[0:int(limit)] and the wrapper, terms being the
\* values retained
ValueListOver(conf, taxonomy_config, tpls, value_list_config, taxonomy, dynamic_vars, outvars, terms) ==
    IF Has(value_list_config.inlined_index_id)
       /\ \E i \in 1..Len(terms) :
              InlinedName(taxonomy_config, value_list_config, terms[i])
                  \notin DOMAIN outvars
    THEN ValueListFailed
    ELSE IF terms # <<>> /\ value_list_config.item_template \notin DOMAIN tpls
    THEN ValueListFailed
    ELSE IF value_list_config.template \notin DOMAIN tpls THEN ValueListFailed
    ELSE [error |-> "",
          out |-> ValueListWrapped(conf, taxonomy_config, tpls, value_list_config,
                      dynamic_vars,
                      Flatten([i \in 1..Len(terms) |->
                          ValueListItem(conf, taxonomy_config, tpls, value_list_config,
                                        taxonomy, dynamic_vars, outvars, terms[i])])),
          terms |-> terms,
          injected |-> IF Has(value_list_config.inlined_index_id)
                       THEN [i \in 1..Len(terms) |->
                               Str(outvars[InlinedName(taxonomy_config,
                                                       value_list_config, terms[i])])]
                       ELSE <<>>]

\* [error, out, terms: the values retained, injected: per retained value the
\*  string put under taxonomy_value_list]
fill_value_list(conf, taxonomy_config, tpls, tid, value_list_config, dbt, dynamic_vars, outvars) ==
    IF tid \notin DOMAIN dbt THEN ValueListFailed
    ELSE ValueListOver(conf, taxonomy_config, tpls, value_list_config, dbt[tid],
                       dynamic_vars, outvars,
                       RetainedTerms(value_list_config, dbt[tid]))

(***************************************************************************)
(* INITIALIZE: load templates and merge every child into its parent        *)
(***************************************************************************)
RECURSIVE LoadTemplates(_)
LoadTemplates(files) ==
    IF files = <<>> THEN <<>>
    ELSE Put(LoadTemplates(SubSeq(files, 1, Len(files) - 1)),
             files[Len(files)][1], files[Len(files)][2])

Without(d, k) == [x \in DOMAIN d \ {k} |-> d[x]]

\* the loop as it would be if the merged template were stored under the
\* parent's name
RECURSIVE ComposeTemplatesUnderParent(_, _)
ComposeTemplatesUnderParent(tpls, names) ==
    IF names = <<>> THEN [error |-> "", tpls |-> tpls]
    ELSE IF Find(Head(names), "_", 1) = 0
    THEN ComposeTemplatesUnderParent(tpls, Tail(names))
    ELSE IF Split(Head(names), "_")[2] \notin DOMAIN tpls
    THEN [error |-> "KeyError", tpls |-> tpls]
    ELSE ComposeTemplatesUnderParent(
             Put(Without(tpls, Head(names)), Split(Head(names), "_")[2],
                 fill(tpls[Split(Head(names), "_")[2]],
                      (<<"b", "o", "d", "y">> :> StrV(tpls[Head(names)])))),
             Tail(names))

\* the loop over list(templates): [error, tpls]
RECURSIVE ComposeTemplates(_, _)
ComposeTemplates(tpls, names) ==
    IF names = <<>> THEN [error |-> "", tpls |-> tpls]
    ELSE LET tpl_name == Head(names)
             child_and_parent == Split(tpl_name, "_")
         IN  IF Find(tpl_name, "_", 1) = 0 THEN ComposeTemplates(tpls, Tail(names))
             ELSE IF child_and_parent[2] \notin DOMAIN tpls
             THEN [error |-> "KeyError", tpls |-> tpls]
             ELSE LET parent_value == tpls[child_and_parent[2]]
                      child_value == tpls[tpl_name]
                      merged == fill(parent_value, (<<"b", "o", "d", "y">> :> StrV(child_value)))
                  IN  ComposeTemplates(Put(Without(tpls, tpl_name),
                                           child_and_parent[1], merged),
                                       Tail(names))

\* list(templates): the keys in insertion order, a repeated key at its first place
RECURSIVE KeyOrder(_, _)
KeyOrder(files, seen) ==
    IF files = <<>> THEN <<>>
    ELSE IF Head(files)[1] \in seen THEN KeyOrder(Tail(files), seen)
    ELSE <<Head(files)[1]>> \o KeyOrder(Tail(files), seen \cup {Head(files)[1]})

(***************************************************************************)
(* ASSEMBLE FILE DESCRIPTORS: the body of the loop over the walked files   *)
(***************************************************************************)
\* the filter as it would be if the draft annotation were not looked at
RetainedDraftsToo(d, suffix) ==
    d[<<"f", "i", "l", "e", "_", "e", "x", "t">>].str \in {<<"m", "a", "r", "k", "d", "o", "w", "n">>, <<"m", "d">>, suffix}

\* a descriptor is dropped when it is a draft or neither markdown nor native
Retained(d, suffix) ==
    /\ <<"d", "r", "a", "f", "t">> \notin DOMAIN d
    /\ d[<<"f", "i", "l", "e", "_", "e", "x", "t">>].str \in {<<"m", "a", "r", "k", "d", "o", "w", "n">>, <<"m", "d">>, suffix}

\* target_path, relative_path, relative_dir_path and pageviews
WithPaths(d, root, suffix, conf) ==
    LET rel == SubSeq(root, 9, Len(root))
        base_path == conf.vars[<<"b", "a", "s", "e", "_", "p", "a", "t", "h">>].str
        out_root == <<"t", "a", "r", "g", "e", "t", "/">> \o suffix
        index_name == <<"i", "n", "d", "e", "x", ".">> \o suffix
        file_name == d[<<"f", "i", "l", "e", "_", "n", "a", "m", "e">>].str
        is_index == file_name = <<"i", "n", "d", "e", "x">>
        target_path == IF is_index THEN PathJoin(<<out_root, rel, index_name>>)
                       ELSE PathJoin(<<out_root, rel, file_name, index_name>>)
        relative_path == IF is_index THEN PathJoin(<<base_path, rel, index_name>>)
                         ELSE PathJoin(<<base_path, rel, file_name, index_name>>)
        relative_dir_path == IF is_index THEN PathJoin(<<base_path, rel>>)
                             ELSE PathJoin(<<base_path, rel, file_name>>)
        d1 == Put(d, <<"t", "a", "r", "g", "e", "t", "_", "p", "a", "t", "h">>, StrV(target_path))
        d2 == Put(d1, <<"r", "e", "l", "a", "t", "i", "v", "e", "_", "p", "a", "t", "h">>, StrV(relative_path))
        d3 == Put(d2, <<"r", "e", "l", "a", "t", "i", "v", "e", "_", "d", "i", "r", "_", "p", "a", "t", "h">>, StrV(relative_dir_path))
    IN  Put(d3, <<"p", "a", "g", "e", "v", "i", "e", "w", "s">>,
            IF relative_dir_path \in DOMAIN conf.pageviews
            THEN IntV(conf.pageviews[relative_dir_path]) ELSE IntV(0))

\* the loop over d[tid].split(','): descriptor k is appended under every value
RECURSIVE AppendUnder(_, _, _)
AppendUnder(taxonomy, values, k) ==
    IF values = <<>> THEN taxonomy
    ELSE LET value == Strip(Head(values))
             t1 == IF value \in DOMAIN taxonomy.items THEN taxonomy
                   ELSE [keys |-> Append(taxonomy.keys, value),
                         items |-> Put(taxonomy.items, value, <<>>)]
             t2 == [t1 EXCEPT !.items[value] = Append(@, k)]
         IN  AppendUnder(t2, Tail(values), k)

\* the loop over config['taxonomies']: [dbt, taxonomy_template]
RECURSIVE GroupDescriptor(_, _, _, _, _)
GroupDescriptor(dbt, taxonomy_template, taxonomies, d, k) ==
    IF taxonomies = <<>> THEN [dbt |-> dbt, taxonomy_template |-> taxonomy_template]
    ELSE LET t == Head(taxonomies)
             tid == t.id
             dbt1 == IF tid \in DOMAIN dbt THEN dbt
                     ELSE Put(dbt, tid, [keys |-> <<>>, items |-> <<>>])
             annotated == tid \in DOMAIN d
             tt == IF annotated /\ Has(t.document_template) THEN t.document_template
                   ELSE taxonomy_template
             dbt2 == IF annotated
                     THEN [dbt1 EXCEPT ![tid] = AppendUnder(@, Split(Str(d[tid]), ","), k)]
                     ELSE dbt1
         IN  GroupDescriptor(dbt2, tt, Tail(taxonomies), d, k)

\* "choose correct template": [error, d]
ChooseTemplate(d, conf, taxonomy_template) ==
    IF <<"t", "e", "m", "p", "l", "a", "t", "e">> \in DOMAIN d THEN [error |-> "", d |-> d]
    ELSE IF ~Has(conf.taxonomies) THEN [error |-> "UnboundLocalError", d |-> d]
    ELSE IF Truthy(taxonomy_template)
    THEN [error |-> "", d |-> Put(d, <<"t", "e", "m", "p", "l", "a", "t", "e">>, StrV(Get(taxonomy_template)))]
    ELSE IF <<"d", "e", "f", "a", "u", "l", "t", "_", "t", "e", "m", "p", "l", "a", "t", "e">> \notin DOMAIN conf.vars THEN [error |-> "KeyError", d |-> d]
    ELSE [error |-> "", d |-> Put(d, <<"t", "e", "m", "p", "l", "a", "t", "e">>, conf.vars[<<"d", "e", "f", "a", "u", "l", "t", "_", "t", "e", "m", "p", "l", "a", "t", "e">>])]

(***************************************************************************)
(* GENERATE TAXONOMY INDEXES: the four lists                               *)
(***************************************************************************)
\* the classification as it would be if an index without output_type counted
\* as a file index
IndexListDescriptorsDefaultFile(taxonomies, output_type) ==
    Flatten([n \in 1..Len(taxonomies) |->
        LET t == taxonomies[n]
            sel == IF Has(t.indexes)
                   THEN SelectSeq(Get(t.indexes),
                                  LAMBDA i : \/ i.output_type = Some(output_type)
                                             \/ /\ i.output_type = Absent
                                                /\ output_type = <<"f", "i", "l", "e">>)
                   ELSE <<>>
        IN  [m \in 1..Len(sel) |-> [taxonomy |-> t, index |-> sel[m]]]])

IndexListDescriptors(taxonomies, output_type) ==
    Flatten([n \in 1..Len(taxonomies) |->
        LET t == taxonomies[n]
            sel == IF Has(t.indexes)
                   THEN SelectSeq(Get(t.indexes),
                                  LAMBDA i : i.output_type = Some(output_type))
                   ELSE <<>>
        IN  [m \in 1..Len(sel) |-> [taxonomy |-> t, index |-> sel[m]]]])

ValueListDescriptors(taxonomies, output_type) ==
    Flatten([n \in 1..Len(taxonomies) |->
        LET t == taxonomies[n]
            sel == IF Has(t.value_lists)
                   THEN SelectSeq(Get(t.value_lists),
                                  LAMBDA vl : vl.output_type = Some(output_type))
                   ELSE <<>>
        IN  [m \in 1..Len(sel) |-> [taxonomy |-> t, value_list |-> sel[m]]]])

(***************************************************************************)
(* The sections of main after the classification, in program order, and    *)
(* the iterations of their loops                                           *)
(***************************************************************************)
\* the sections as they would run if document files were written before index files
SectionsDocumentsFirst ==
    <<"variable_indexes", "variable_value_lists", "document_files",
      "file_indexes", "file_value_lists">>

Sections ==
    <<"variable_indexes", "variable_value_lists", "file_indexes",
      "file_value_lists", "document_files">>

\* the iterations of "for ... in list: for tvalue in descriptors_by_taxonomies[tid]":
\* <<position in list, position of tvalue>>, <<position, 0>> where the lookup of
\* tid raises KeyError
IndexWork(list, dbt) ==
    Flatten([li \in 1..Len(list) |->
        LET tid == list[li].taxonomy.id
        IN  IF tid \in DOMAIN dbt
            THEN [vi \in 1..Len(dbt[tid].keys) |-> <<li, vi>>]
            ELSE << <<li, 0>> >>])

WorkCount(section, ilv, vlv, ilf, vlf, dbt, ds) ==
    CASE section = "variable_indexes" -> Len(IndexWork(ilv, dbt))
      [] section = "variable_value_lists" -> Len(vlv)
      [] section = "file_indexes" -> Len(IndexWork(ilf, dbt))
      [] section = "file_value_lists" -> Len(vlf)
      [] section = "document_files" -> Len(ds)

\* the first section after position n whose loop has an iteration, else "done"
RECURSIVE SectionAfter(_, _, _, _, _, _, _)
SectionAfter(n, ilv, vlv, ilf, vlf, dbt, ds) ==
    IF n >= Len(Sections) THEN "done"
    ELSE IF WorkCount(Sections[n + 1], ilv, vlv, ilf, vlf, dbt, ds) > 0 THEN Sections[n + 1]
    ELSE SectionAfter(n + 1, ilv, vlv, ilf, vlf, dbt, ds)

SectionIndex(section) == CHOOSE n \in 1..Len(Sections) : Sections[n] = section

(***************************************************************************)
(* Inputs of the run                                                       *)
(***************************************************************************)
IndexDefaults ==
    [id |-> <<"i">>, output_type |-> Absent, item_template |-> <<"i", "t", "e", "m">>,
     template |-> <<"w", "r", "a", "p">>, order_by |-> Absent, order_direction |-> Absent,
     limit |-> Absent, output_suffix |-> Absent, custom_variables |-> <<>>]

ValueListDefaults ==
    [id |-> <<"v", "l">>, output_type |-> Absent, item_template |-> <<"v", "i", "t", "e", "m">>,
     template |-> <<"v", "w", "r", "a", "p">>, order_by |-> Absent, order_direction |-> Absent,
     limit |-> Absent, inlined_index_id |-> Absent, output_suffix |-> Absent]

VariableIndex == [IndexDefaults EXCEPT !.output_type = Some(<<"v", "a", "r", "i", "a", "b", "l", "e">>)]

FileIndex == [IndexDefaults EXCEPT !.id = <<"i", "n", "d", "e", "x">>, !.output_type = Some(<<"f", "i", "l", "e">>)]

UnusedIndex == [IndexDefaults EXCEPT !.id = <<"n">>]

VariableValueList ==
    [ValueListDefaults EXCEPT !.output_type = Some(<<"v", "a", "r", "i", "a", "b", "l", "e">>),
                              !.inlined_index_id = Some(<<"i">>)]

FileValueList ==
    [ValueListDefaults EXCEPT !.id = <<"f", "l">>, !.output_type = Some(<<"f", "i", "l", "e">>),
                              !.inlined_index_id = Some(<<"i">>)]

TaxonomyT(indexes, value_lists) ==
    [id |-> <<"t">>, title |-> <<"T">>, document_template |-> Absent,
     indexes |-> Some(indexes), value_lists |-> Some(value_lists)]

TaxonomyU ==
    [id |-> <<"u">>, title |-> <<"U">>, document_template |-> Some(<<"b", "a", "s", "e">>),
     indexes |-> Absent, value_lists |-> Absent]

BaseVars ==
    (<<"b", "a", "s", "e", "_", "p", "a", "t", "h">> :> StrV(<<"/">>)) @@ (<<"d", "e", "f", "a", "u", "l", "t", "_", "t", "e", "m", "p", "l", "a", "t", "e">> :> StrV(<<"p", "a", "g", "e">>))

ConfigOf(taxonomies) ==
    [vars |-> BaseVars, ssl_enabled |-> TRUE, taxonomies |-> taxonomies, pageviews |-> <<>>]

Configs ==
    { \* every kind of definition, the lists inlining the variable index
      ConfigOf(Some(<<TaxonomyT(<<VariableIndex, FileIndex>>,
                                <<VariableValueList, FileValueList>>)>>)),
      \* the same with a site title and page views in the configuration
      [ConfigOf(Some(<<TaxonomyT(<<VariableIndex, FileIndex>>,
                                 <<VariableValueList, FileValueList>>)>>))
         EXCEPT !.vars = Put(Put(BaseVars, <<"t", "i", "t", "l", "e">>, StrV(<<"S", "i", "t", "e">>)),
                             <<"p", "a", "g", "e", "v", "i", "e", "w", "s", "_", "f", "i", "l", "e">>, StrV(<<"p", "v">>)),
                !.ssl_enabled = FALSE,
                !.pageviews = (<<"/", "a">> :> 7)],
      \* a variable value list inlining an index that is written to a file
      ConfigOf(Some(<<TaxonomyT(<<FileIndex, UnusedIndex>>,
                                <<[VariableValueList EXCEPT
                                      !.inlined_index_id = Some(<<"i", "n", "d", "e", "x">>)],
                                  [ValueListDefaults EXCEPT
                                      !.id = <<"a", "l">>,
                                      !.output_type = Some(<<"a", "t", "o", "m">>)]>>)>>)),
      \* a file value list inlining an index that is not declared
      ConfigOf(Some(<<TaxonomyT(<<VariableIndex, FileIndex>>,
                                <<VariableValueList,
                                  [FileValueList EXCEPT
                                      !.inlined_index_id = Some(<<"z", "z">>)]>>)>>)),
      \* sorted and limited definitions, custom variables, a second taxonomy
      ConfigOf(Some(<<TaxonomyT(<<[VariableIndex EXCEPT
                                      !.order_direction = Some(<<"a", "s", "c">>),
                                      !.limit = Some(1),
                                      !.custom_variables =
                                          << <<<<"c">>, <<"{", "{", " ", "t", "a", "x", "o", "n", "o", "m", "y", "_", "v", "a", "l", "u", "e", " ", "}", "}", "!">>>> >>,
                                      !.template = <<"c", "w", "r", "a", "p">>]>>,
                                <<[VariableValueList EXCEPT
                                      !.order_direction = Some(<<"d", "e", "s", "c">>),
                                      !.order_by = Some(<<"c", "o", "u", "n", "t">>),
                                      !.limit = Some(1)],
                                  [FileValueList EXCEPT
                                      !.inlined_index_id = Absent,
                                      !.order_direction = Some(<<"a", "s", "c">>),
                                      !.output_suffix = Some(<<"x", "m", "l">>)]>>),
                      TaxonomyU>>)),
      \* no taxonomies key
      ConfigOf(Absent) }

TemplateFiles ==
    << <<<<"i", "t", "e", "m">>, <<"{", "{", " ", "f", "i", "l", "e", "_", "n", "a", "m", "e", " ", "}", "}", ";">>>>,
       <<<<"w", "r", "a", "p">>, <<"{", "{", " ", "t", "i", "t", "l", "e", " ", "}", "}", ":", "{", "{", " ", "b", "o", "d", "y", " ", "}", "}">>>>,
       <<<<"c", "w", "r", "a", "p">>, <<"{", "{", " ", "c", " ", "}", "}", "{", "{", " ", "b", "o", "d", "y", " ", "}", "}">>>>,
       <<<<"v", "i", "t", "e", "m">>, <<"{", "{", " ", "t", "a", "x", "o", "n", "o", "m", "y", "_", "v", "a", "l", "u", "e", " ", "}", "}", "=", "{", "{", " ", "t", "a", "x", "o", "n", "o", "m", "y", "_", "v", "a", "l", "u", "e", "_", "l", "i", "s", "t", " ", "}", "}", " ">>>>,
       <<<<"v", "w", "r", "a", "p">>, <<"[", "{", "{", " ", "b", "o", "d", "y", " ", "}", "}", "]">>>>,
       <<<<"p", "a", "g", "e", "_", "b", "a", "s", "e">>, <<"{", "{", " ", "t", "i", "t", "l", "e", " ", "}", "}", "|", "{", "{", " ", "b", "o", "d", "y", " ", "}", "}">>>>,
       <<<<"b", "a", "s", "e">>, <<"<", "{", "{", " ", "b", "o", "d", "y", " ", "}", "}", ">">>>>,
       <<<<"s", "h", "e", "l", "l">>, <<"{", "{", " ", "s", "c", "h", "e", "m", "e", " ", "}", "}", ":", "{", "{", " ", "b", "o", "d", "y", " ", "}", "}">>>>,
       <<<<"f", "e", "e", "d", "_", "s", "h", "e", "l", "l">>, <<"{", "{", " ", "t", "i", "t", "l", "e", " ", "}", "}">>>> >>

File(root, name, header, body) ==
    [root |-> root, name |-> name, header |-> header, body |-> body]

FilePool ==
    << File(<<"c", "o", "n", "t", "e", "n", "t">>, <<"a", ".", "m", "d">>, << <<<<"t">>, <<"G", "o">>>> >>, <<"h", "i", " ", "{", "{", " ", "t", "a", "x", "o", "n", "o", "m", "y", "_", "v", "a", "l", "u", "e", " ", "}", "}">>),
       File(<<"c", "o", "n", "t", "e", "n", "t">>, <<"b", ".", "m", "d">>,
            << <<<<"t">>, <<"g", "o", ",", " ", "x">>>>, <<<<"d", "a", "t", "e">>, <<"2", "0", "2", "1", "-", "0", "2", "-", "0", "3">>>> >>, <<"b">>),
       File(<<"c", "o", "n", "t", "e", "n", "t", "/", "a">>, <<"i", "n", "d", "e", "x", ".", "m", "d">>, << <<<<"t", "i", "t", "l", "e">>, <<"A">>>> >>, <<"x">>),
       File(<<"c", "o", "n", "t", "e", "n", "t">>, <<"c", ".", "m", "d">>,
            << <<<<"d", "r", "a", "f", "t">>, <<"y", "e", "s">>>>, <<<<"t">>, <<"G", "o">>>> >>, <<"d">>),
       File(<<"c", "o", "n", "t", "e", "n", "t">>, <<"d", ".", "t", "x", "t">>, << <<<<"t">>, <<"x">>>> >>, <<"e">>),
       File(<<"c", "o", "n", "t", "e", "n", "t">>, <<"e", ".", "m", "d">>,
            << <<<<"t">>, <<"x", ",", ",", " ", "y">>>>, <<<<"u">>, <<"k">>>> >>, <<"{", "{", " ", "t", "_", "v", "l", " ", "}", "}">>),
       File(<<"c", "o", "n", "t", "e", "n", "t">>, <<"a", ".", "h", "t", "m", "l">>, << <<<<"t", "e", "m", "p", "l", "a", "t", "e">>, <<"b", "a", "s", "e">>>> >>, <<"<", "p", ">", "n", "<", "/", "p", ">">>),
       File(<<"c", "o", "n", "t", "e", "n", "t", "/", "t", "/", "g", "o">>, <<"i", "n", "d", "e", "x", ".", "g", "m", "i">>, << <<<<"t", "e", "m", "p", "l", "a", "t", "e">>, <<"b", "a", "s", "e">>>> >>, <<"g">>),
       File(<<"c", "o", "n", "t", "e", "n", "t">>, <<"f", ".", "m", "d">>, << <<<<"d", "a", "t", "e">>, <<"2", "0", "2", "1", "-", "0", "2", "-", "3", "0">>>> >>, <<"f">>) >>

\* the sequences of at most n distinct positions of FilePool
RECURSIVE Walks(_)
Walks(n) ==
    IF n = 0 THEN {<<>>}
    ELSE LET shorter == Walks(n - 1)
         IN  shorter \cup {Append(w, i) : w \in {x \in shorter : Len(x) = n - 1},
                                          i \in 1..Len(FilePool)}

Contents ==
    {[i \in 1..Len(w) |-> FilePool[w[i]]] :
        w \in {x \in Walks(MaxFiles) : \A i, j \in 1..Len(x) : i # j => x[i] # x[j]}}

(***************************************************************************)
(* Specification Spec: one format's run of --generate                      *)
(***************************************************************************)
FillIdle ==
    /\ ftpl = <<>>
    /\ fscope = <<>>
    /\ fout = <<>>
    /\ fout2 = <<>>
    /\ fpc = "idle"

Init ==
    /\ FillIdle
    /\ protocol \in Protocols
    /\ config \in Configs
    /\ template_files = TemplateFiles
    /\ content \in Contents
    /\ pc = "init"
    /\ error = ""
    /\ cursor = 0
    /\ templates = <<>>
    /\ descriptors = <<>>
    /\ descriptors_by_taxonomies = <<>>
    /\ index_list_variable_descriptors = <<>>
    /\ value_list_variable_descriptors = <<>>
    /\ index_list_file_descriptors = <<>>
    /\ value_list_file_descriptors = <<>>
    /\ output_variables = <<>>
    /\ target = <<>>
    /\ origin = <<>>
    /\ log = <<>>

\* an uncaught exception ends the run where it is
Raise(e) ==
    /\ error' = e
    /\ UNCHANGED <<inputs, pc, cursor, templates, descriptors, descriptors_by_taxonomies,
                   lists, output_variables, target, origin, log, fvars>>

\* one more iteration of the current section's loop is done
Advance ==
    LET n == SectionIndex(pc)
        count == WorkCount(pc, index_list_variable_descriptors,
                           value_list_variable_descriptors, index_list_file_descriptors,
                           value_list_file_descriptors, descriptors_by_taxonomies,
                           descriptors)
    IN  IF cursor + 1 < count
        THEN cursor' = cursor + 1 /\ pc' = pc
        ELSE /\ cursor' = 0
             /\ pc' = SectionAfter(n, index_list_variable_descriptors,
                                   value_list_variable_descriptors,
                                   index_list_file_descriptors,
                                   value_list_file_descriptors,
                                   descriptors_by_taxonomies, descriptors)

Event(op) ==
    [op |-> op, tid |-> <<>>, id |-> <<>>, value |-> <<>>, name |-> <<>>, out |-> <<>>,
     items |-> <<>>, terms |-> <<>>, inlined |-> Absent, injected |-> <<>>, doc |-> 0]

\* the templates after the composition, or its exception
Composed(r) ==
    IF r.error # "" THEN Raise(r.error)
    ELSE /\ templates' = r.tpls
         /\ pc' = IF content = <<>> THEN "classify" ELSE "assemble"
         /\ UNCHANGED <<inputs, error, cursor, descriptors, descriptors_by_taxonomies,
                        lists, output_variables, target, origin, log, fvars>>

\* INITIALIZE
Initialize ==
    /\ pc = "init" /\ error = ""
    /\ Composed(ComposeTemplates(LoadTemplates(template_files),
                                 KeyOrder(template_files, {})))

\* the loop over the walked files moves on
NextFile ==
    /\ cursor' = IF cursor + 1 = Len(content) THEN 0 ELSE cursor + 1
    /\ pc' = IF cursor + 1 = Len(content) THEN "classify" ELSE pc

\* the descriptor with its template is appended to descriptors
Chosen(g, c) ==
    IF c.error # "" THEN Raise(c.error)
    ELSE /\ NextFile
         /\ descriptors' = Append(descriptors, c.d)
         /\ origin' = Append(origin, cursor + 1)
         /\ descriptors_by_taxonomies' = g.dbt
         /\ UNCHANGED <<inputs, error, templates, lists, output_variables, target, log,
                        fvars>>

Grouped(d, g) == Chosen(g, ChooseTemplate(d, config, g.taxonomy_template))

\* the taxonomies loop over a retained descriptor that has its paths
Pathed(d) ==
    Grouped(d, IF Has(config.taxonomies)
               THEN GroupDescriptor(descriptors_by_taxonomies, Absent,
                                    Get(config.taxonomies), d, Len(descriptors) + 1)
               ELSE [dbt |-> descriptors_by_taxonomies, taxonomy_template |-> Absent])

\* the body of the loop after assemble_file_descriptor returned a
Assembled(file, a) ==
    IF a.error # "" THEN Raise(a.error)
    ELSE IF ~Retained(a.d, file_suffix(protocol))
    THEN /\ NextFile
         /\ UNCHANGED <<inputs, error, templates, descriptors, descriptors_by_taxonomies,
                        lists, output_variables, target, origin, log, fvars>>
    ELSE Pathed(WithPaths(a.d, file.root, file_suffix(protocol), config))

\* ASSEMBLE FILE DESCRIPTORS: one walked file
AssembleFile ==
    /\ pc = "assemble" /\ error = ""
    /\ Assembled(content[cursor + 1], assemble_file_descriptor(content[cursor + 1]))

\* the classification of the declared indexes and value lists
ClassifyIndexes ==
    /\ pc = "classify" /\ error = ""
    /\ LET taxonomies == IF Has(config.taxonomies) THEN Get(config.taxonomies) ELSE <<>>
           ilv == IndexListDescriptors(taxonomies, <<"v", "a", "r", "i", "a", "b", "l", "e">>)
           vlv == ValueListDescriptors(taxonomies, <<"v", "a", "r", "i", "a", "b", "l", "e">>)
           ilf == IndexListDescriptors(taxonomies, <<"f", "i", "l", "e">>)
           vlf == ValueListDescriptors(taxonomies, <<"f", "i", "l", "e">>)
       IN  /\ index_list_variable_descriptors' = ilv
           /\ value_list_variable_descriptors' = vlv
           /\ index_list_file_descriptors' = ilf
           /\ value_list_file_descriptors' = vlf
           /\ pc' = SectionAfter(0, ilv, vlv, ilf, vlf, descriptors_by_taxonomies,
                                 descriptors)
    /\ UNCHANGED <<inputs, error, cursor, templates, descriptors,
                   descriptors_by_taxonomies, output_variables, target, origin, log,
                   fvars>>

\* the target path of a file-output index for one taxonomy value
IndexTargetPath(suffix, taxonomy_config, index_config, tvalue) ==
    PathJoin(<<<<"t", "a", "r", "g", "e", "t", "/">> \o suffix \o <<"/">> \o taxonomy_config.id,
               IF tvalue # <<>> THEN normalize_string(tvalue) ELSE <<>>,
               index_config.id \o <<".">>
                   \o (IF Has(index_config.output_suffix)
                       THEN Get(index_config.output_suffix) ELSE suffix)>>)

\* the target path of a file-output value list
ValueListTargetPath(suffix, tid, value_list_config) ==
    PathJoin(<<<<"t", "a", "r", "g", "e", "t", "/">> \o suffix \o <<"/">> \o tid,
               value_list_config.id \o <<".">>
                   \o (IF Has(value_list_config.output_suffix)
                       THEN Get(value_list_config.output_suffix) ELSE suffix)>>)

\* the call of fill_index in main for one index definition and taxonomy value
RenderIndex(ild, tvalue) ==
    fill_index(protocol, ConfigScope(config), ild.taxonomy, templates, ild.taxonomy.id,
               tvalue, ild.index, TaxonomyVariables(ild.taxonomy), descriptors,
               descriptors_by_taxonomies, DynamicVars(protocol, config),
               output_variables)

\* the call as it would be if a pool name that is missing read as ''
RenderValueListLenient(vld) ==
    fill_value_list(ConfigScope(config), vld.taxonomy, templates, vld.taxonomy.id,
                    vld.value_list, descriptors_by_taxonomies,
                    DynamicVars(protocol, config),
                    IF Has(vld.value_list.inlined_index_id)
                       /\ vld.taxonomy.id \in DOMAIN descriptors_by_taxonomies
                    THEN output_variables
                         @@ [n \in {InlinedName(vld.taxonomy, vld.value_list, term) :
                                       term \in Range(descriptors_by_taxonomies[
                                                          vld.taxonomy.id].keys)}
                               |-> StrV(<<>>)]
                    ELSE output_variables)

\* the call of fill_value_list in main for one value list definition
RenderValueList(vld) ==
    fill_value_list(ConfigScope(config), vld.taxonomy, templates, vld.taxonomy.id,
                    vld.value_list, descriptors_by_taxonomies,
                    DynamicVars(protocol, config), output_variables)

\* output_variables[variable_name] = output
IndexVariableStored(ilvd, tvalue, variable_name, r) ==
    IF r.error # "" THEN Raise(r.error)
    ELSE /\ descriptors' = r.ds
         /\ output_variables' = Put(output_variables, variable_name, StrV(r.out))
         /\ log' = Append(log, [Event("index_variable") EXCEPT
                                   !.tid = ilvd.taxonomy.id, !.id = ilvd.index.id,
                                   !.value = tvalue, !.name = variable_name,
                                   !.out = r.out, !.items = r.items])
         /\ Advance
         /\ UNCHANGED <<inputs, error, templates, descriptors_by_taxonomies, lists,
                        target, origin, fvars>>

IndexVariableFor(ilvd, tvalue) ==
    IndexVariableStored(ilvd, tvalue,
                        IndexVariableName(ilvd.taxonomy.id, ilvd.index.id, tvalue),
                        RenderIndex(ilvd, tvalue))

IndexVariableAt(w) ==
    IF w[2] = 0 THEN Raise("KeyError")
    ELSE IndexVariableFor(index_list_variable_descriptors[w[1]],
             descriptors_by_taxonomies[index_list_variable_descriptors[w[1]].taxonomy.id]
                 .keys[w[2]])

\* GENERATE VARIABLES: one taxonomy value of one variable-output index
GenerateIndexVariable ==
    /\ pc = "variable_indexes" /\ error = ""
    /\ IndexVariableAt(IndexWork(index_list_variable_descriptors,
                                 descriptors_by_taxonomies)[cursor + 1])

ValueListVariableStored(vlvd, variable_name, r) ==
    IF r.error # "" THEN Raise(r.error)
    ELSE /\ output_variables' = Put(output_variables, variable_name, StrV(r.out))
         /\ log' = Append(log, [Event("value_list_variable") EXCEPT
                                   !.tid = vlvd.taxonomy.id, !.id = vlvd.value_list.id,
                                   !.name = variable_name, !.out = r.out,
                                   !.terms = r.terms,
                                   !.inlined = vlvd.value_list.inlined_index_id,
                                   !.injected = r.injected])
         /\ Advance
         /\ UNCHANGED <<inputs, error, templates, descriptors, descriptors_by_taxonomies,
                        lists, target, origin, fvars>>

ValueListVariableFor(vlvd) ==
    ValueListVariableStored(vlvd,
                            ValueListVariableName(vlvd.taxonomy.id, vlvd.value_list.id),
                            RenderValueList(vlvd))

\* GENERATE VARIABLES: one variable-output value list
GenerateValueListVariable ==
    /\ pc = "variable_value_lists" /\ error = ""
    /\ ValueListVariableFor(value_list_variable_descriptors[cursor + 1])

\* write_file(target_path, output)
IndexFileWritten(ilfd, tvalue, target_path, r) ==
    IF r.error # "" THEN Raise(r.error)
    ELSE /\ descriptors' = r.ds
         /\ target' = Put(target, target_path, r.out)
         /\ log' = Append(log, [Event("index_file") EXCEPT
                                   !.tid = ilfd.taxonomy.id, !.id = ilfd.index.id,
                                   !.value = tvalue, !.name = target_path,
                                   !.out = r.out, !.items = r.items])
         /\ Advance
         /\ UNCHANGED <<inputs, error, templates, descriptors_by_taxonomies, lists,
                        output_variables, origin, fvars>>

IndexFileFor(ilfd, tvalue) ==
    IndexFileWritten(ilfd, tvalue,
                     IndexTargetPath(file_suffix(protocol), ilfd.taxonomy, ilfd.index,
                                     tvalue),
                     RenderIndex(ilfd, tvalue))

IndexFileAt(w) ==
    IF w[2] = 0 THEN Raise("KeyError")
    ELSE IndexFileFor(index_list_file_descriptors[w[1]],
             descriptors_by_taxonomies[index_list_file_descriptors[w[1]].taxonomy.id]
                 .keys[w[2]])

\* GENERATE FILES: one taxonomy value of one file-output index
GenerateIndexFile ==
    /\ pc = "file_indexes" /\ error = ""
    /\ IndexFileAt(IndexWork(index_list_file_descriptors,
                             descriptors_by_taxonomies)[cursor + 1])

ValueListFileWritten(vlfd, target_path, r) ==
    IF r.error # "" THEN Raise(r.error)
    ELSE /\ target' = Put(target, target_path, r.out)
         /\ log' = Append(log, [Event("value_list_file") EXCEPT
                                   !.tid = vlfd.taxonomy.id, !.id = vlfd.value_list.id,
                                   !.name = target_path, !.out = r.out,
                                   !.terms = r.terms,
                                   !.inlined = vlfd.value_list.inlined_index_id,
                                   !.injected = r.injected])
         /\ Advance
         /\ UNCHANGED <<inputs, error, templates, descriptors, descriptors_by_taxonomies,
                        lists, output_variables, origin, fvars>>

ValueListFileFor(vlfd) ==
    ValueListFileWritten(vlfd,
                         ValueListTargetPath(file_suffix(protocol), vlfd.taxonomy.id,
                                             vlfd.value_list),
                         RenderValueList(vlfd))

\* GENERATE FILES: one file-output value list
GenerateValueListFile ==
    /\ pc = "file_value_lists" /\ error = ""
    /\ ValueListFileFor(value_list_file_descriptors[cursor + 1])

\* f(**a, **b, ...) raises TypeError when a keyword is given twice
KeywordTwice(dicts) ==
    \E i, j \in 1..Len(dicts) : i < j /\ DOMAIN dicts[i] \cap DOMAIN dicts[j] # {}

\* write_file(d['target_path'], fill(tpl, ...))
DocumentWritten(k, d, out) ==
    /\ descriptors' = [descriptors EXCEPT ![k] = d]
    /\ target' = Put(target, d[<<"t", "a", "r", "g", "e", "t", "_", "p", "a", "t", "h">>].str, out)
    /\ log' = Append(log, [Event("document_file") EXCEPT
                              !.doc = k, !.name = d[<<"t", "a", "r", "g", "e", "t", "_", "p", "a", "t", "h">>].str, !.out = out])
    /\ Advance
    /\ UNCHANGED <<inputs, error, templates, descriptors_by_taxonomies, lists,
                   output_variables, origin, fvars>>

\* the template lookup and the page fill, d being the converted descriptor
DocumentFilled(k, d, conf, dynamic_vars) ==
    IF d[<<"t", "e", "m", "p", "l", "a", "t", "e">>].str \notin DOMAIN templates THEN Raise("KeyError")
    ELSE IF KeywordTwice(<<d, conf, dynamic_vars, output_variables>>)
    THEN Raise("TypeError")
    ELSE DocumentWritten(k, d, fill(templates[d[<<"t", "e", "m", "p", "l", "a", "t", "e">>].str],
                                    Merge(<<d, conf, dynamic_vars, output_variables>>)))

DocumentFor(k, d, conf, dynamic_vars) ==
    IF KeywordTwice(<<d, conf, dynamic_vars, output_variables>>) THEN Raise("TypeError")
    ELSE DocumentFilled(k, convert_and_fill_body(d, protocol,
                               Merge(<<d, conf, dynamic_vars, output_variables>>)),
                        conf, dynamic_vars)

\* "and finally, generate post files": one descriptor
GenerateDocumentFile ==
    /\ pc = "document_files" /\ error = ""
    /\ DocumentFor(cursor + 1, descriptors[cursor + 1], ConfigScope(config),
                   DynamicVars(protocol, config))

Next ==
    \/ Initialize
    \/ AssembleFile
    \/ ClassifyIndexes
    \/ GenerateIndexVariable
    \/ GenerateValueListVariable
    \/ GenerateIndexFile
    \/ GenerateValueListFile
    \/ GenerateDocumentFile

Spec == Init /\ [][Next]_vars

(***************************************************************************)
(* Properties of a run                                                     *)
(***************************************************************************)
LogOps ==
    <<"index_variable", "value_list_variable", "index_file", "value_list_file",
      "document_file">>

OpRank(op) == CHOOSE n \in 1..Len(LogOps) : LogOps[n] = op

\* the section of main whose loop produces the events of kind op
OpSection(op) ==
    CASE op = "index_variable" -> "variable_indexes"
      [] op = "value_list_variable" -> "variable_value_lists"
      [] op = "index_file" -> "file_indexes"
      [] op = "value_list_file" -> "file_value_lists"
      [] op = "document_file" -> "document_files"

\* the iterations of the loop that produces the events of kind op
OpWork(op) ==
    WorkCount(OpSection(op), index_list_variable_descriptors,
              value_list_variable_descriptors, index_list_file_descriptors,
              value_list_file_descriptors, descriptors_by_taxonomies, descriptors)

OpEvents(op) == {n \in 1..Len(log) : log[n].op = op}

FileOps == {"index_file", "value_list_file", "document_file"}

\* C1: the phases run in order: nothing is generated before the descriptors
\* are assembled and the definitions classified; every variable-output index
\* is in the pool before any value list is rendered, every pool write is
\* before any index file, file value lists come after all file indexes, and
\* document files after all index files.
C1_PhaseOrder ==
    /\ pc \in {"init", "assemble"} =>
          /\ index_list_variable_descriptors = <<>>
          /\ value_list_variable_descriptors = <<>>
          /\ index_list_file_descriptors = <<>>
          /\ value_list_file_descriptors = <<>>
    /\ pc \in {"init", "assemble", "classify"} =>
          log = <<>> /\ output_variables = <<>> /\ target = <<>>
    /\ \A i, j \in 1..Len(log) : i < j => OpRank(log[i].op) <= OpRank(log[j].op)
    /\ \A n \in 1..Len(log) : \A r \in 1..(OpRank(log[n].op) - 1) :
          Cardinality(OpEvents(LogOps[r])) = OpWork(LogOps[r])

\* a run that went through all five generation steps and completed
C1_Witness ==
    /\ pc = "done"
    /\ error = ""
    /\ \A r \in 1..Len(LogOps) : OpEvents(LogOps[r]) # {}

\* C2: for a value list that inlines an index generated in the variable
\* phase, the string injected for every retained value is exactly the
\* rendering produced for that same value, and it appears in the list's output.
C2_InlinedRendering ==
    \A n \in 1..Len(log) :
        (log[n].op \in {"value_list_variable", "value_list_file"} /\ Has(log[n].inlined)) =>
            \A i \in 1..Len(log[n].terms) : \A m \in 1..(n - 1) :
                (/\ log[m].op = "index_variable"
                 /\ log[m].tid = log[n].tid
                 /\ log[m].id = Get(log[n].inlined)
                 /\ log[m].value = log[n].terms[i]) =>
                    /\ log[n].injected[i] = log[m].out
                    /\ IsSubstring(log[m].out, log[n].out)

\* the value list about to be rendered
CurrentValueList ==
    IF pc = "variable_value_lists" THEN value_list_variable_descriptors[cursor + 1]
    ELSE value_list_file_descriptors[cursor + 1]

\* the value list about to be rendered names an inlined index and retains a
\* value whose pool name is not in the pool
MissingInlined ==
    /\ pc \in {"variable_value_lists", "file_value_lists"}
    /\ Has(CurrentValueList.value_list.inlined_index_id)
    /\ CurrentValueList.taxonomy.id \in DOMAIN descriptors_by_taxonomies
    /\ \E term \in Range(RetainedTerms(CurrentValueList.value_list,
                             descriptors_by_taxonomies[CurrentValueList.taxonomy.id])) :
          (CurrentValueList.taxonomy.id \o <<"_">>
              \o Get(CurrentValueList.value_list.inlined_index_id) \o <<"_">>
              \o normalize_string(term)) \notin DOMAIN output_variables

\* C3: a value list whose inlined index is missing from the pool for a value
\* it retains stops the generation: the step raises, the list yields no pool
\* entry and no file, and nothing is written afterwards.
C3_MissingInlineStops ==
    [][/\ (error = "" /\ MissingInlined) =>
              (error' # "" /\ UNCHANGED <<output_variables, target, log>>)
       /\ error # "" => UNCHANGED <<output_variables, target, log>>]_vars

\* a file value list stopped on a missing inlined index after index files
\* were written
C3_Witness ==
    /\ error = "KeyError"
    /\ MissingInlined
    /\ pc = "file_value_lists"
    /\ OpEvents("index_file") # {}
    /\ OpEvents("value_list_file") = {}

\* C4: the pool is append-only: a name once written keeps its value.
C4_PoolAppendOnly ==
    [][\A name \in DOMAIN output_variables :
          /\ name \in DOMAIN output_variables'
          /\ output_variables'[name] = output_variables[name]]_vars

\* C5: a placeholder defined in several scope layers resolves to the layer of
\* highest precedence, the descriptor's own fields being highest; a descriptor
\* field that shares its name with a configuration key, pool entry or dynamic
\* variable wins when the page is rendered, and the rendering completes.
C5_ScopePrecedence ==
    /\ pc = "document_files" => error # "TypeError"
    /\ \A n \in 1..Len(log) : log[n].op = "document_file" =>
          log[n].out =
              fill(templates[descriptors[log[n].doc][<<"t", "e", "m", "p", "l", "a", "t", "e">>].str],
                   Over(Merge(<<ConfigScope(config), output_variables,
                                DynamicVars(protocol, config)>>),
                        descriptors[log[n].doc]))

\* C8: when the run completes, every retained document has exactly one output
\* file at its target_path, holding its own page: no other document and no
\* index file was written to that path.
C8_OneFilePerDocument ==
    (pc = "done" /\ error = "") =>
        \A k \in 1..Len(descriptors) :
            /\ descriptors[k][<<"t", "a", "r", "g", "e", "t", "_", "p", "a", "t", "h">>].str \in DOMAIN target
            /\ \E n \in OpEvents("document_file") :
                  /\ log[n].doc = k
                  /\ target[descriptors[k][<<"t", "a", "r", "g", "e", "t", "_", "p", "a", "t", "h">>].str] = log[n].out
            /\ \A n \in 1..Len(log) :
                  (log[n].op \in FileOps /\ log[n].name = descriptors[k][<<"t", "a", "r", "g", "e", "t", "_", "p", "a", "t", "h">>].str)
                      => log[n].doc = k

\* the extension of a file name: what lies between its first and second dot
FileExtOf(name) ==
    CHOOSE e \in {SubSeq(name, i + 1, j - 1) : i \in 1..Len(name), j \in 2..(Len(name) + 1)} :
        \E i \in 1..Len(name) : \E j \in (i + 1)..(Len(name) + 1) :
            /\ e = SubSeq(name, i + 1, j - 1)
            /\ name[i] = "."
            /\ \A k \in 1..(i - 1) : name[k] # "."
            /\ \A k \in (i + 1)..(j - 1) : name[k] # "."
            /\ j = Len(name) + 1 \/ name[j] = "."

\* a walked file with a draft annotation or an extension that is neither
\* markdown nor the format's own
Excluded(file, suffix) ==
    \/ \E h \in 1..Len(file.header) : file.header[h][1] = <<"d", "r", "a", "f", "t">>
    \/ FileExtOf(file.name) \notin {<<"m", "a", "r", "k", "d", "o", "w", "n">>, <<"m", "d">>, suffix}

\* C9: a draft, or a document of an unsupported extension, is excluded from
\* all further processing: no descriptor is kept for it, it is in no taxonomy
\* value bucket, is an item of no index, is counted by no value list and no
\* output file is written for it.
C9_ExcludedNowhere ==
    \A p \in 1..Len(content) :
        Excluded(content[p], file_suffix(protocol)) =>
            /\ \A k \in 1..Len(origin) : origin[k] # p
            /\ \A tid \in DOMAIN descriptors_by_taxonomies :
                  \A v \in DOMAIN descriptors_by_taxonomies[tid].items :
                      \A k \in Range(descriptors_by_taxonomies[tid].items[v]) :
                          origin[k] # p
            /\ \A n \in 1..Len(log) :
                  /\ \A k \in Range(log[n].items) : origin[k] # p
                  /\ log[n].doc # 0 => origin[log[n].doc] # p

\* a completed run over a draft that names a taxonomy value and a document
\* that is kept
C9_Witness ==
    /\ pc = "done"
    /\ error = ""
    /\ descriptors # <<>>
    /\ OpEvents("value_list_file") # {}
    /\ \E p \in 1..Len(content) :
          /\ Excluded(content[p], file_suffix(protocol))
          /\ \E h \in 1..Len(content[p].header) : content[p].header[h][1] = <<"t">>

\* the comma-separated parts of s: what lies between two neighbouring cuts
PartsOf(s) ==
    LET cuts == {0, Len(s) + 1} \cup {i \in 1..Len(s) : s[i] = ","}
    IN  {SubSeq(s, a + 1, b - 1) :
            <<a, b>> \in {c \in cuts \X cuts :
                            c[1] < c[2] /\ \A x \in cuts : x <= c[1] \/ x >= c[2]}}

\* s without the whitespace at its two ends
Trimmed(s) ==
    CHOOSE t \in {SubSeq(s, i, j) : i \in 1..(Len(s) + 1), j \in 0..Len(s)} :
        \E i \in 1..(Len(s) + 1) : \E j \in (i - 1)..Len(s) :
            /\ t = SubSeq(s, i, j)
            /\ \A k \in 1..(i - 1) : s[k] \in Whitespace
            /\ \A k \in (j + 1)..Len(s) : s[k] \in Whitespace
            /\ i <= j => (s[i] \notin Whitespace /\ s[j] \notin Whitespace)

\* the values of taxonomy tid under which descriptor k is
BucketsOf(tid, k) ==
    {v \in DOMAIN descriptors_by_taxonomies[tid].items :
        k \in Range(descriptors_by_taxonomies[tid].items[v])}

ConfiguredTaxonomies ==
    IF Has(config.taxonomies) THEN {t.id : t \in Range(Get(config.taxonomies))} ELSE {}

\* C10 as stated: the buckets of a retained descriptor are exactly the
\* whitespace-trimmed comma-separated parts of its annotation, and no bucket
\* is named by the empty string.
C10_BucketsNoEmpty ==
    \A k \in 1..Len(descriptors) : \A tid \in ConfiguredTaxonomies \cap DOMAIN descriptors[k] :
        /\ BucketsOf(tid, k)
              = {Trimmed(part) : part \in PartsOf(descriptors[k][tid].str)} \ {<<>>}
        /\ <<>> \notin DOMAIN descriptors_by_taxonomies[tid].items

\* C10 amended: the buckets of a retained descriptor are exactly the
\* whitespace-trimmed comma-separated parts of its annotation, an empty part
\* giving the bucket named by the empty string.
C10_BucketsAreTrimmedParts ==
    \A k \in 1..Len(descriptors) : \A tid \in ConfiguredTaxonomies \cap DOMAIN descriptors[k] :
        BucketsOf(tid, k) = {Trimmed(part) : part \in PartsOf(descriptors[k][tid].str)}

\* a descriptor whose annotation has consecutive commas and a part with
\* whitespace around it
C10_Witness ==
    \E k \in 1..Len(descriptors) :
        /\ <<"t">> \in DOMAIN descriptors[k]
        /\ descriptors[k][<<"t">>].str = <<"x", ",", ",", " ", "y">>
        /\ BucketsOf(<<"t">>, k) = {<<"x">>, <<>>, <<"y">>}

\* C11: after the assembly the taxonomy map has an entry for every taxonomy
\* id the configuration declares, also when no document matches a taxonomy
\* and when no document is retained at all.
C11_EveryTaxonomyHasEntry ==
    pc \notin {"init", "assemble"} =>
        ConfiguredTaxonomies \subseteq DOMAIN descriptors_by_taxonomies

\* the keys of the annotations of a walked file
Annotated(file) == {file.header[h][1] : h \in 1..Len(file.header)}

\* the value of annotation key of a walked file that has it
AnnotationOf(file, key) ==
    file.header[CHOOSE h \in 1..Len(file.header) :
                    /\ file.header[h][1] = key
                    /\ \A g \in (h + 1)..Len(file.header) : file.header[g][1] # key][2]

\* the positions, in declaration order, of the taxonomies that declare a
\* document_template and are annotated on the file
TemplateGivers(file) ==
    IF Has(config.taxonomies)
    THEN {n \in 1..Len(Get(config.taxonomies)) :
            /\ Has(Get(config.taxonomies)[n].document_template)
            /\ Get(config.taxonomies)[n].id \in Annotated(file)}
    ELSE {}

\* the template name the resolution rule gives a walked file
ResolvedTemplate(file) ==
    IF <<"t", "e", "m", "p", "l", "a", "t", "e">> \in Annotated(file) THEN AnnotationOf(file, <<"t", "e", "m", "p", "l", "a", "t", "e">>)
    ELSE IF TemplateGivers(file) # {}
    THEN Get(Get(config.taxonomies)[CHOOSE n \in TemplateGivers(file) :
                                        \A m \in TemplateGivers(file) : m <= n]
                 .document_template)
    ELSE config.vars[<<"d", "e", "f", "a", "u", "l", "t", "_", "t", "e", "m", "p", "l", "a", "t", "e">>].str

\* C12: every retained descriptor leaves the assembly with its template
\* resolved as the explicit annotation, else the document_template of the last
\* annotated taxonomy that declares one, else default_template; this holds for
\* every configuration, one without taxonomies included, and does not stop
\* the run.
C12_TemplateResolved ==
    /\ error # "UnboundLocalError"
    /\ \A k \in 1..Len(descriptors) :
          descriptors[k][<<"t", "e", "m", "p", "l", "a", "t", "e">>].str = ResolvedTemplate(content[origin[k]])

\* the index definition an index event was generated from
IndexConfigOf(e) ==
    (CHOOSE ild \in Range(index_list_variable_descriptors)
                       \cup Range(index_list_file_descriptors) :
        ild.taxonomy.id = e.tid /\ ild.index.id = e.id).index

\* the sort key of descriptor k under an index definition
SortKey(ic, k) ==
    descriptors[k][IF Has(ic.order_by) THEN Get(ic.order_by) ELSE <<"d", "a", "t", "e">>]

\* descriptor j must not come before descriptor i under the definition's
\* direction: ascending for asc, descending otherwise
Misordered(ic, i, j) ==
    IF ic.order_direction = Some(<<"a", "s", "c">>)
    THEN ValueLess(SortKey(ic, j), SortKey(ic, i))
    ELSE ValueLess(SortKey(ic, i), SortKey(ic, j))

\* C14: a value index renders its items in the order of the sort key (default
\* date), descending unless order_direction is asc and ascending when it is,
\* and renders exactly the first min(limit, n) descriptors of that order, all
\* n without a limit.
C14_SortedAndLimited ==
    \A n \in 1..Len(log) : log[n].op \in {"index_variable", "index_file"} =>
        LET ic == IndexConfigOf(log[n])
            bucket == descriptors_by_taxonomies[log[n].tid].items[log[n].value]
            items == log[n].items
        IN  /\ Len(items) = IF Has(ic.limit) /\ Get(ic.limit) < Len(bucket)
                            THEN Get(ic.limit) ELSE Len(bucket)
            /\ Range(items) \subseteq Range(bucket)
            /\ \A i, j \in 1..Len(items) :
                  i < j => items[i] # items[j] /\ ~Misordered(ic, items[i], items[j])
            /\ \A k \in Range(bucket) \ Range(items) : \A i \in 1..Len(items) :
                  ~Misordered(ic, items[i], k)

\* an ascending index limited to one item rendered the older of two
\* documents, which is the second of its bucket
C14_Witness ==
    \E n \in 1..Len(log) :
        /\ log[n].op = "index_variable"
        /\ IndexConfigOf(log[n]).order_direction = Some(<<"a", "s", "c">>)
        /\ Len(descriptors_by_taxonomies[log[n].tid].items[log[n].value]) = 2
        /\ log[n].items
              = <<descriptors_by_taxonomies[log[n].tid].items[log[n].value][2]>>

\* the declared index definitions and value-list definitions, each with its
\* taxonomy
DeclaredIndexes ==
    IF Has(config.taxonomies)
    THEN {[taxonomy |-> t, index |-> i] :
             <<t, i>> \in {x \in Range(Get(config.taxonomies))
                                  \X UNION {Range(Get(t.indexes)) :
                                              t \in {u \in Range(Get(config.taxonomies)) :
                                                        Has(u.indexes)}} :
                              Has(x[1].indexes) /\ x[2] \in Range(Get(x[1].indexes))}}
    ELSE {}

DeclaredValueLists ==
    IF Has(config.taxonomies)
    THEN {[taxonomy |-> t, value_list |-> vl] :
             <<t, vl>> \in {x \in Range(Get(config.taxonomies))
                                   \X UNION {Range(Get(t.value_lists)) :
                                               t \in {u \in Range(Get(config.taxonomies)) :
                                                         Has(u.value_lists)}} :
                               Has(x[1].value_lists)
                               /\ x[2] \in Range(Get(x[1].value_lists))}}
    ELSE {}

\* how many times x is in a list
Count(list, x) == Cardinality({n \in 1..Len(list) : list[n] = x})

Classified == pc \notin {"init", "assemble", "classify"}

\* C15 as stated: every declared index definition and value-list definition
\* is in exactly one of the four lists, whatever its output_type holds or
\* omits.
C15_Partition ==
    Classified =>
        /\ \A x \in DeclaredIndexes :
              Count(index_list_variable_descriptors, x)
                  + Count(index_list_file_descriptors, x) = 1
        /\ \A x \in DeclaredValueLists :
              Count(value_list_variable_descriptors, x)
                  + Count(value_list_file_descriptors, x) = 1

\* C15 amended: a declared definition whose output_type is variable or file
\* is in exactly one of the four lists, the one of its kind and output type,
\* and any other definition is in none; only definitions in a list are
\* generated, each at most once, a value index at most once per taxonomy value.
C15_PartitionByOutputType ==
    Classified =>
        /\ \A x \in DeclaredIndexes :
              /\ Count(index_list_variable_descriptors, x)
                    = IF x.index.output_type = Some(<<"v", "a", "r", "i", "a", "b", "l", "e">>) THEN 1 ELSE 0
              /\ Count(index_list_file_descriptors, x)
                    = IF x.index.output_type = Some(<<"f", "i", "l", "e">>) THEN 1 ELSE 0
        /\ \A x \in DeclaredValueLists :
              /\ Count(value_list_variable_descriptors, x)
                    = IF x.value_list.output_type = Some(<<"v", "a", "r", "i", "a", "b", "l", "e">>) THEN 1 ELSE 0
              /\ Count(value_list_file_descriptors, x)
                    = IF x.value_list.output_type = Some(<<"f", "i", "l", "e">>) THEN 1 ELSE 0
        /\ Range(index_list_variable_descriptors) \cup Range(index_list_file_descriptors)
              \subseteq DeclaredIndexes
        /\ Range(value_list_variable_descriptors) \cup Range(value_list_file_descriptors)
              \subseteq DeclaredValueLists
        /\ \A n \in 1..Len(log) :
              /\ log[n].op = "index_variable" =>
                    \E x \in Range(index_list_variable_descriptors) :
                        x.taxonomy.id = log[n].tid /\ x.index.id = log[n].id
              /\ log[n].op = "index_file" =>
                    \E x \in Range(index_list_file_descriptors) :
                        x.taxonomy.id = log[n].tid /\ x.index.id = log[n].id
              /\ log[n].op = "value_list_variable" =>
                    \E x \in Range(value_list_variable_descriptors) :
                        x.taxonomy.id = log[n].tid /\ x.value_list.id = log[n].id
              /\ log[n].op = "value_list_file" =>
                    \E x \in Range(value_list_file_descriptors) :
                        x.taxonomy.id = log[n].tid /\ x.value_list.id = log[n].id
              /\ \A m \in 1..Len(log) :
                    (/\ log[m].op = log[n].op /\ log[m].tid = log[n].tid
                     /\ log[m].id = log[n].id /\ log[m].value = log[n].value
                     /\ log[m].doc = log[n].doc) => m = n

\* a completed run of a configuration with an index that has no output_type
\* and a value list of another output type, in which a value list was generated
C15_Witness ==
    /\ pc = "done"
    /\ error = ""
    /\ \E x \in DeclaredIndexes : x.index.output_type = Absent
    /\ \E x \in DeclaredValueLists : x.value_list.output_type = Some(<<"a", "t", "o", "m">>)
    /\ OpEvents("value_list_variable") # {}

\* the descriptor at position k as the assembly left it: the body as read
\* from the file, no summary yet
AsAssembled(k) ==
    Without(Put(descriptors[k], <<"b", "o", "d", "y">>, StrV(content[origin[k]].body)), <<"s", "u", "m", "m", "a", "r", "y">>)

\* the one conversion of the document phase, applied to the descriptor as
\* assembled
ConvertedOnce(k) ==
    convert_and_fill_body(AsAssembled(k), protocol,
                          Merge(<<AsAssembled(k), ConfigScope(config),
                                  DynamicVars(protocol, config), output_variables>>))

\* C16: the body of a descriptor is filled and converted at most once, so the
\* body and the summary of a written page are those of one conversion of the
\* body read from the file, whether or not the descriptor was rendered as an
\* index item before.
C16_BodyConvertedOnce ==
    \A n \in 1..Len(log) :
        log[n].op = "document_file" =>
            /\ descriptors[log[n].doc][<<"b", "o", "d", "y">>] = ConvertedOnce(log[n].doc)[<<"b", "o", "d", "y">>]
            /\ descriptors[log[n].doc][<<"s", "u", "m", "m", "a", "r", "y">>] = ConvertedOnce(log[n].doc)[<<"s", "u", "m", "m", "a", "r", "y">>]

(***************************************************************************)
(* Specification FillSpec: fill applied once and twice to drawn inputs     *)
(***************************************************************************)
\* the run's variables while only fill is exercised
RunIdle ==
    /\ protocol = "http"
    /\ config = <<>>
    /\ template_files = <<>>
    /\ content = <<>>
    /\ pc = "idle"
    /\ error = ""
    /\ cursor = 0
    /\ templates = <<>>
    /\ descriptors = <<>>
    /\ descriptors_by_taxonomies = <<>>
    /\ index_list_variable_descriptors = <<>>
    /\ value_list_variable_descriptors = <<>>
    /\ index_list_file_descriptors = <<>>
    /\ value_list_file_descriptors = <<>>
    /\ output_variables = <<>>
    /\ target = <<>>
    /\ origin = <<>>
    /\ log = <<>>

n_a == <<"a">>
n_b == <<"b">>

Pieces ==
    { <<"{", "{", "a", "}", "}">>,
      <<"{", "{", " ", "b", " ", " ", "}", "}">>,
      <<"{", "{">>, <<"}", "}">>, <<"{">>, <<" ">>, <<"a">> }

FillTemplates == {Flatten(ps) : ps \in SeqsUpTo(Pieces, MaxPieces)}

FillScopes ==
    { <<>>,
      (n_a :> StrV(<<"x">>)),
      (n_a :> StrV(<<"x">>)) @@ (n_b :> IntV(12)),
      (n_a :> StrV(<<>>)) @@ (n_b :> StrV(<<"y", " ">>)),
      (n_a :> StrV(<<"{", "{", "b", "}", "}">>)) @@ (n_b :> StrV(<<"z">>)),
      (n_a :> StrV(<<"{", "{", "a", "}", "}", "x">>)),
      (n_a :> StrV(<<"x">>)) @@ (<<"{", "a">> :> StrV(<<"w">>)) @@ (n_b :> StrV(<<"a">>)) }

FillInit ==
    /\ RunIdle
    /\ ftpl \in FillTemplates
    /\ fscope \in FillScopes
    /\ fout = <<>>
    /\ fout2 = <<>>
    /\ fpc = "start"

FillOnce ==
    /\ fpc = "start"
    /\ fout' = fill(ftpl, fscope)
    /\ fpc' = "filled"
    /\ UNCHANGED <<ftpl, fscope, fout2, rvars>>

FillAgain ==
    /\ fpc = "filled"
    /\ fout2' = fill(fout, fscope)
    /\ fpc' = "refilled"
    /\ UNCHANGED <<ftpl, fscope, fout, rvars>>

FillNext == FillOnce \/ FillAgain

FillSpec == FillInit /\ [][FillNext]_vars

(***************************************************************************)
(* Placeholder tokens of a template, stated without scanning: t[i..e-1] is *)
(* "{{", whitespace, a non-empty name without "}" or whitespace,           *)
(* whitespace, "}}".                                                       *)
(***************************************************************************)
TokenShape(t, i, e) ==
    /\ i + 5 <= e
    /\ e <= Len(t) + 1
    /\ t[i] = "{" /\ t[i + 1] = "{"
    /\ t[e - 2] = "}" /\ t[e - 1] = "}"
    /\ \E a \in (i + 2)..(e - 3) : \E b \in a..(e - 3) :
          /\ \A k \in (i + 2)..(a - 1) : t[k] \in Whitespace
          /\ \A k \in a..b : t[k] \notin Whitespace /\ t[k] # "}"
          /\ \A k \in (b + 1)..(e - 3) : t[k] \in Whitespace

TokenEnds(t, i) == {e \in (i + 5)..(Len(t) + 1) : TokenShape(t, i, e)}

\* the end (exclusive) of the token that starts at each position, 0 for none
TokenEnd(t) ==
    [i \in 1..Len(t) |->
        IF TokenEnds(t, i) = {} THEN 0 ELSE CHOOSE e \in TokenEnds(t, i) : TRUE]

TokenName(t, i, e) ==
    SelectSeq(SubSeq(t, i + 2, e - 3), LAMBDA c : c \notin Whitespace)

\* the tokens a single left-to-right pass takes, as the set of their start
\* positions: a token starts at i and no token taken further left reaches over i
TakenStarts(t) ==
    LET end == TokenEnd(t)
        taken[i \in 1..Len(t)] ==
            /\ end[i] # 0
            /\ \A j \in 1..(i - 1) : taken[j] => end[j] <= i
    IN  {i \in 1..Len(t) : taken[i]}

\* the placeholder names a single pass looks up
TakenNames(t) ==
    LET end == TokenEnd(t) IN {TokenName(t, i, end[i]) : i \in TakenStarts(t)}

\* the result the contract of fill describes, token by token
Expected(t, S) ==
    LET end == TokenEnd(t)
        starts == TakenStarts(t)
        inside(i) == \E j \in starts : j < i /\ i < end[j]
    IN  Flatten([i \in 1..Len(t) |->
            IF i \in starts
            THEN IF TokenName(t, i, end[i]) \in DOMAIN S
                 THEN Str(S[TokenName(t, i, end[i])])
                 ELSE SubSeq(t, i, end[i] - 1)
            ELSE IF inside(i) THEN <<>> ELSE <<t[i]>>])

AllDefined(t, S) == TakenNames(t) \subseteq DOMAIN S

Braces == {"{", "}"}

BraceFreeValues(S) == \A n \in DOMAIN S : \A c \in Range(Str(S[n])) : c \notin Braces

BraceFreeText(t) ==
    LET end == TokenEnd(t)
        starts == TakenStarts(t)
    IN  \A i \in 1..Len(t) :
            (\A j \in starts : i < j \/ end[j] <= i) => t[i] \notin Braces

\* C6: fill is a single left-to-right pass: every token whose name is in the
\* scope is replaced by str(value), every token whose name is absent and all
\* text outside tokens is emitted unchanged, and a replacement is not expanded.
C6_FillSinglePass ==
    fpc \in {"filled", "refilled"} => fout = Expected(ftpl, fscope)

\* a template with a replaced token whose value holds a placeholder, and an
\* absent token with inner whitespace that survives
C6_Witness ==
    /\ fpc = "filled"
    /\ \E n \in TakenNames(ftpl) \cap DOMAIN fscope : TakenStarts(Str(fscope[n])) # {}
    /\ \E i \in TakenStarts(ftpl) :
          LET e == TokenEnd(ftpl)[i]
          IN  /\ TokenName(ftpl, i, e) \notin DOMAIN fscope
              /\ e - i > Len(TokenName(ftpl, i, e)) + 4

\* C7 as stated: fill is idempotent whenever the scope defines every
\* placeholder name of the template.
C7_Idempotent ==
    (fpc = "refilled" /\ AllDefined(ftpl, fscope)) => fout2 = fout

\* C7 amended: fill is idempotent when the scope defines every placeholder
\* name of the template and neither a scope value nor the template's text
\* outside its placeholders holds a brace.
C7_IdempotentBraceFree ==
    (/\ fpc = "refilled"
     /\ AllDefined(ftpl, fscope)
     /\ BraceFreeValues(fscope)
     /\ BraceFreeText(ftpl)) => fout2 = fout

C7_Witness ==
    /\ fpc = "refilled"
    /\ AllDefined(ftpl, fscope)
    /\ BraceFreeValues(fscope)
    /\ BraceFreeText(ftpl)
    /\ Cardinality(TakenStarts(ftpl)) >= 2
    /\ fout # ftpl

(***************************************************************************)
(* Template composition                                                    *)
(***************************************************************************)
\* the positions of the marker "_" in a template name
Markers(name) == {i \in 1..Len(name) : name[i] = "_"}

\* the part of a composite name before its first marker
ChildName(name) ==
    SubSeq(name, 1, (CHOOSE i \in Markers(name) : \A j \in Markers(name) : i <= j) - 1)

\* the part of a composite name between its first marker and its second
ParentName(name) ==
    LET first == CHOOSE i \in Markers(name) : \A j \in Markers(name) : i <= j
        later == {j \in Markers(name) : j > first} \cup {Len(name) + 1}
    IN  SubSeq(name, first + 1, (CHOOSE j \in later : \A k \in later : j <= k) - 1)

\* the loaded template files whose name carries the marker
Composites == {n \in 1..Len(TemplateFiles) : Markers(TemplateFiles[n][1]) # {}}

\* the content of the template file of a name
RawTemplate(name) ==
    TemplateFiles[CHOOSE n \in 1..Len(TemplateFiles) : TemplateFiles[n][1] = name][2]

\* per composite, the parent with the child's raw content at its body
\* placeholder and nothing else resolved
Merged ==
    [n \in Composites |->
        Expected(RawTemplate(ParentName(TemplateFiles[n][1])),
                 (<<"b", "o", "d", "y">> :> StrV(TemplateFiles[n][2])))]

\* C13 as stated: the child's raw content is substituted into the parent's
\* body placeholder only, and the merged result is stored under the parent's
\* base name, replacing the standalone parent entry.
C13_ComposedUnderParent ==
    (pc # "init" /\ error = "") =>
        \A n \in Composites :
            /\ TemplateFiles[n][1] \notin DOMAIN templates
            /\ templates[ParentName(TemplateFiles[n][1])] = Merged[n]

\* C13 amended: the child's raw content is substituted into the parent's body
\* placeholder only, and the merged result is stored under the child's base
\* name, the part of the name before the marker; the composite's own entry is
\* removed and the parent's entry stays as loaded.
C13_ComposedUnderChild ==
    (pc # "init" /\ error = "") =>
        \A n \in Composites :
            /\ TemplateFiles[n][1] \notin DOMAIN templates
            /\ ChildName(TemplateFiles[n][1]) \in DOMAIN templates
            /\ templates[ChildName(TemplateFiles[n][1])] = Merged[n]
            /\ (\A m \in Composites :
                   ChildName(TemplateFiles[m][1]) # ParentName(TemplateFiles[n][1]))
                  => templates[ParentName(TemplateFiles[n][1])]
                        = RawTemplate(ParentName(TemplateFiles[n][1]))

\* a child that holds placeholders of its own, one of them body, and a parent
\* with a placeholder other than body, composed
C13_Witness ==
    /\ pc # "init"
    /\ error = ""
    /\ templates[<<"p", "a", "g", "e">>] = <<"<", "{", "{", " ", "t", "i", "t", "l", "e", " ", "}", "}", "|", "{", "{", " ", "b", "o", "d", "y", " ", "}", "}", ">">>
    /\ templates[<<"f", "e", "e", "d">>] = <<"{", "{", " ", "s", "c", "h", "e", "m", "e", " ", "}", "}", ":", "{", "{", " ", "t", "i", "t", "l", "e", " ", "}", "}">>
    /\ templates[<<"s", "h", "e", "l", "l">>] = <<"{", "{", " ", "s", "c", "h", "e", "m", "e", " ", "}", "}", ":", "{", "{", " ", "b", "o", "d", "y", " ", "}", "}">>

====
